---- MODULE Spec2Model ----
(***************************************************************************)
(* Verification model of the PDF parser / stream validator / serializer    *)
(* (package pdf: parse.go, stream.go, serialize.go).                       *)
(*                                                                         *)
(* The module holds state machines over disjoint groups of variables:      *)
(*   SpecParse  - fileInput.parse, the XREF engine, the body walker and    *)
(*                PdfFile.Serialize, over files laid out on a slot grid;   *)
(*   SpecStream - getDictionaryOrStream / getStreamBytes and CheckStreams, *)
(*                byte by byte;                                            *)
(*   SpecArray  - nextToken, save/restore look-ahead, getArray and         *)
(*                getNumberOrObjRef, byte by byte;                         *)
(*   SpecDict   - getDictionaryOrStream for a plain dictionary, the        *)
(*                trailer's Size and Root, serializeDictionary;            *)
(*   SpecHex, SpecA85, SpecHeader - one call of checkASCIIHexDecode,       *)
(*                checkASCII85Decode, parseHeader on a byte string.        *)
(***************************************************************************)
EXTENDS Integers, Sequences, FiniteSets, TLC

VARIABLES
    \* ---- SpecParse ----
    file,       \* the input file (slot grid, see MakeFile)
    fix,        \* fileInput.fix
    pc,         \* position in fileInput.parse / Serialize
    phase,      \* 1: Parse(F); 2: Parse(F') of the serialized file
    fi,         \* fileInput: bStart, stopAt, pos (= bStart+offset), blen, tok
    pf,         \* PdfFile: Version, Objects, ObjById, Trailer, Size, Catalog
    heap,       \* the PdfObject cells; Objects and ObjById hold indices into it
    loc,        \* locals of parse(): mainObjStart, xrefStart, blockEnd, objEnd, i
    ret,        \* what Parse returned: [pf, err], or NoReturn
    failedAt,   \* the stage whose error was returned
    first,      \* result of Parse(F), kept for the round trip
    outFile,    \* the file written by Serialize
    \* ---- SpecStream ----
    sBuffer,    \* fi.buffer, from the byte after the keyword `stream`
    sFix,       \* fileInput.fix
    sBytes,     \* fi.bytes (what the previous stream of the file left there)
    sOffset,    \* fi.offset
    sDeclared,  \* the Length read from the dictionary (twice its value), -1 before
    sValue,     \* the object's value: [kind, Length, Filter, data]
    sCheckFix,  \* the fix argument of CheckStreams
    sPc,        \* "stream", "parsed", "checked", "checkerr"
    \* ---- SpecArray ----
    aInput,     \* the array written in the buffer: [elems, tight]
    aBuffer,    \* fi.buffer
    aFi,        \* token, offset, tokFilePos, savedToken, savedOffset, savedPos
    aArray,     \* the array built by getArray
    aPc,        \* "array", "element", "done", "error", "panic"
    \* ---- SpecDict ----
    dInput,     \* the dictionary written in the buffer: its entries [key, val]
    dBuffer,    \* fi.buffer
    dFi,        \* token, offset, tokFilePos, savedToken, savedOffset, savedPos
    dKeys,      \* k: the keys in file order (pdfDictionary.keys)
    dData,      \* m: the value of each key (pdfDictionary.data), NoEntry if absent
    dPf,        \* what parseTrailer extracts: [res, Size, Catalog]
    dOut,       \* the entries serializeDictionary wrote: a sequence of [key, val]
    dPc,        \* "dict", "entry", "parsed", "stream", "error", "panic", "trailer", "written"
    \* ---- SpecHex, SpecA85, SpecHeader: one call of a function ----
    cArgs,      \* the arguments of the call
    cResult,    \* what the call returned
    cPc         \* "call", "returned"

parseVars == <<file, fix, pc, phase, fi, pf, heap, loc, ret, failedAt, first, outFile>>
streamVars == <<sBuffer, sFix, sBytes, sOffset, sDeclared, sValue, sCheckFix, sPc>>
arrayVars == <<aInput, aBuffer, aFi, aArray, aPc>>
dictVars == <<dInput, dBuffer, dFi, dKeys, dData, dPf, dOut, dPc>>
callVars == <<cArgs, cResult, cPc>>
vars == <<parseVars, streamVars, arrayVars, dictVars, callVars>>

(***************************************************************************)
(* Bounds of the model and program constants                               *)
(***************************************************************************)
MaxSections == 3        \* XREF sections (base + incremental updates) per file
MaxBaseObjs == 2        \* objects in the base body
MaxId == 3              \* object ids are 1..MaxId
MaxChunks == 3          \* pieces (a byte or the word endstream) after `stream` EOL
MaxLength == 12         \* largest declared stream Length
MaxElems == 3           \* elements of an array
MaxEntries == 3         \* entries of a dictionary
MaxContent == 8         \* bytes that follow the first line and its comment
MaxHexLen == 4          \* bytes given to checkASCIIHexDecode
MaxA85Len == 5          \* bytes given to checkASCII85Decode before the end marker
MaxNameLen == 4         \* bytes of a name token after its `/`
MaxHexStr == 4          \* bytes of a hex string after its `<`
MaxFileLen == 5         \* bytes of a file read through the buffered input
BufSize == 3            \* INPUT_BUFFER_SIZE, scaled down
MaxDigits == 8          \* significant digits of a number written
MaxExp == 8             \* largest decimal exponent of a number written, either sign

STARTXREF_SIZE == 512   \* _STARTXREF_SIZE
FIRST_READ == 512       \* readFirstLine: fillBuffer( 512, 0 )
HEADER_END == 15        \* offset after "%PDF-1.N\n%....\n"
OBJ_HDR_LEN == 8        \* "N G obj\n"
ENDOBJ_LEN == 7         \* "endobj\n"
EOF_LEN == 6            \* "%%EOF\n"
FREE_GEN == 65535       \* generation of the free list head

\* byte values and byte strings the lexer tests for
LF == 10
CR == 13
SP == 32
PERCENT == 37
SLASH == 47
LPAREN == 40
LT == 60
GT == 62
LBRACKET == 91
RBRACKET == 93
PLUS == 43
HASH == 35
MINUS == 45
DOT == 46
LOWER_E == 101
DIGIT0 == 48                                \* '0'
DIGIT9 == 57                                \* '9'
KEYWORD_R == <<82>>                         \* "R"
DATA == <<97>>                              \* 'a': a payload byte, also a hex digit
NAME_N == <<47, 78>>                        \* "/N"
ENDSTREAM == <<101, 110, 100, 115, 116, 114, 101, 97, 109>>     \* "endstream"
ENDOBJ_TAIL == <<10, 101, 110, 100, 111, 98, 106, 10>>          \* "\nendobj\n"
NEAR_WINDOW == 15                           \* bytes looked up after the expected end
FILE_WINDOW == 256                          \* bytes read from the file otherwise

SlotWidths == {64, 256} \* bytes taken by each object / each XREF+trailer
Gens == {0, 1}

(***************************************************************************)
(* Sequence helpers                                                        *)
(***************************************************************************)
Max(S) == CHOOSE x \in S : \A y \in S : y <= x
Min(S) == CHOOSE x \in S : \A y \in S : x <= y

RECURSIVE SortedSeq(_)
SortedSeq(S) == IF S = {} THEN <<>> ELSE <<Min(S)>> \o SortedSeq(S \ {Min(S)})

RECURSIVE SumLen(_, _)
SumLen(bodies, n) == IF n = 0 THEN 0 ELSE Len(bodies[n]) + 1 + SumLen(bodies, n - 1)

(***************************************************************************)
(* Input files.  A file is a sequence of slots of slotW bytes each: slot 1 *)
(* is the header (offset 0), then for every section its body objects and   *)
(* one slot holding the XREF table and the trailer.  The offset of slot k  *)
(* is (k-1)*slotW.                                                         *)
(***************************************************************************)
BaseBodies ==
    { [j \in 1..Cardinality(ids) |-> [id |-> SortedSeq(ids)[j], gen |-> 0]] :
        ids \in { s \in SUBSET (1..MaxId) : s # {} /\ Cardinality(s) <= MaxBaseObjs } }

UpdBodies == { <<[id |-> i, gen |-> g]>> : i \in 1..MaxId, g \in Gens }

FileShapes ==
    UNION { { <<b>> \o u : b \in BaseBodies, u \in [1..(n-1) -> UpdBodies] } :
            n \in 1..MaxSections }

\* 0-based slot number of the first object of section s, and of its XREF
BodyStart(bodies, s) == 1 + SumLen(bodies, s - 1)
XrefSlotNo(bodies, s) == BodyStart(bodies, s) + Len(bodies[s])

BodyIds(body) == { body[j].id : j \in 1..Len(body) }
FirstAt(body, id) == Min({ j \in 1..Len(body) : body[j].id = id })

XrefEntry(bodies, s, w, id) ==
    IF id \in BodyIds(bodies[s])
    THEN [off |-> (BodyStart(bodies, s) + FirstAt(bodies[s], id) - 1) * w,
          gen |-> bodies[s][FirstAt(bodies[s], id)].gen, use |-> "n"]
    ELSE [off |-> 0, gen |-> IF id = 0 THEN FREE_GEN ELSE 0, use |-> "f"]

XrefSub(bodies, s, w) ==
    LET lo == IF s = 1 THEN 0 ELSE Min(BodyIds(bodies[s]))
        hi == Max(BodyIds(bodies[s]))
    IN [first |-> lo,
        ents |-> [k \in 1..(hi - lo + 1) |-> XrefEntry(bodies, s, w, lo + k - 1)]]

TrailerOf(bodies, s, w) ==
    [kw |-> TRUE,
     size |-> 1 + Max(UNION { BodyIds(bodies[t]) : t \in 1..s }),
     root |-> bodies[1][1].id,
     prev |-> IF s = 1 THEN -1 ELSE XrefSlotNo(bodies, s - 1) * w,
     sx |-> XrefSlotNo(bodies, s) * w,
     eof |-> TRUE]

SectionSlots(bodies, s, w) ==
    [j \in 1..Len(bodies[s]) |->
        [kind |-> "obj", id |-> bodies[s][j].id, gen |-> bodies[s][j].gen,
         val |-> 10 * s + j]]
    \o <<[kind |-> "xref", subs |-> <<XrefSub(bodies, s, w)>>,
          tr |-> TrailerOf(bodies, s, w)]>>

RECURSIVE AllSlots(_, _, _)
AllSlots(bodies, n, w) ==
    IF n = 0 THEN <<[kind |-> "hdr"]>>
    ELSE AllSlots(bodies, n - 1, w) \o SectionSlots(bodies, n, w)

MakeFile(bodies, w) ==
    [slotW |-> w, hdr |-> TRUE, minor |-> 52, nSec |-> Len(bodies),
     slots |-> AllSlots(bodies, Len(bodies), w), defect |-> "none"]

(***************************************************************************)
(* Malformed inputs: one defect applied to section s of a well-formed file *)
(***************************************************************************)
XrefIdx(bodies, s) == XrefSlotNo(bodies, s) + 1     \* index in f.slots
FirstInUse(sub) == Min({ k \in 1..Len(sub.ents) : sub.ents[k].use = "n" })
LastInUse(sub) == Max({ k \in 1..Len(sub.ents) : sub.ents[k].use = "n" })

DupFirst(bodies, s) ==
    [bodies EXCEPT ![s] = <<bodies[s][1]>> \o bodies[s]]

\* the same XREF entries written as two subsections: the first entry, then
\* the others
SplitSub(sub) ==
    <<[first |-> sub.first, ents |-> <<Head(sub.ents)>>],
      [first |-> sub.first + 1, ents |-> Tail(sub.ents)]>>

Defective(bodies, w, kind, s) ==
    LET f == MakeFile(bodies, w)
        x == XrefIdx(bodies, s)
        last == XrefIdx(bodies, Len(bodies))
        k == FirstInUse(f.slots[x].subs[1])
        g == [f EXCEPT !.defect = kind]
    IN CASE kind = "hdr" -> [g EXCEPT !.hdr = FALSE]
         [] kind = "nosx" -> [g EXCEPT !.slots[last].tr.sx = -1]
         [] kind = "sxbeyond" -> [g EXCEPT !.slots[last].tr.sx = Len(f.slots) * w + w]
         [] kind = "xoff" -> [g EXCEPT !.slots[x].subs[1].ents[k].off = -1]
         [] kind = "xbeyond" -> [g EXCEPT !.slots[x].subs[1].ents[k].off = Len(f.slots) * w]
         [] kind = "xlast" ->
              [g EXCEPT !.slots[x].subs[1].ents[LastInUse(f.slots[x].subs[1])].off =
                            Len(f.slots) * w]
         [] kind = "xfree" -> [g EXCEPT !.slots[x].subs[1].ents[k].use = "f"]
         [] kind = "notrailer" -> [g EXCEPT !.slots[x].tr.kw = FALSE]
         [] kind = "noroot" -> [g EXCEPT !.slots[x].tr.root = -1]
         [] kind = "rootzero" -> [g EXCEPT !.slots[x].tr.root = 0]
         [] kind = "prevloop" -> [g EXCEPT !.slots[x].tr.prev = (last - 1) * w]
         [] kind = "twosubs" -> [g EXCEPT !.slots[x].subs = SplitSub(f.slots[x].subs[1])]
         [] kind = "badval" -> [g EXCEPT !.slots[BodyStart(bodies, s) + 1].val = 0]
         [] kind = "dup" -> [MakeFile(DupFirst(bodies, s), w) EXCEPT !.defect = kind]

FileDefects == {"hdr", "nosx", "sxbeyond"}
SectionDefects ==
    {"xoff", "xbeyond", "xfree", "notrailer", "noroot", "rootzero", "badval", "dup",
     "prevloop"}
\* inputs that are valid PDF but written another way: the base section's XREF
\* table in two subsections
Variants == {"twosubs"}
DefectWidth == Max(SlotWidths)

WellFormedFiles == { MakeFile(b, w) : b \in FileShapes, w \in SlotWidths }
DefectiveFiles ==
    { Defective(b, DefectWidth, k, Len(b)) : b \in FileShapes, k \in FileDefects }
    \cup UNION { { Defective(b, DefectWidth, k, s) : k \in SectionDefects, s \in 1..Len(b) } :
                 b \in FileShapes }
    \cup { Defective(b, DefectWidth, k, 1) : b \in FileShapes, k \in Variants }
    \cup { Defective(b, DefectWidth, "xlast", 1) :
             b \in { c \in FileShapes : Len(c[1]) > 1 } }
InputFiles == WellFormedFiles \cup DefectiveFiles

(***************************************************************************)
(* File geometry                                                           *)
(***************************************************************************)
FileSize(f) == Len(f.slots) * f.slotW
Aligned(f, p) == p % f.slotW = 0
SlotAt(f, p) == f.slots[(p \div f.slotW) + 1]
EndobjPos(f, p) == p + f.slotW - ENDOBJ_LEN          \* tokFilePos of "endobj"
AfterEndobj(f, p) == p + f.slotW - 1
AfterTrailer(f, p) == p + f.slotW - EOF_LEN          \* eofComment leaves %%EOF unread
ValPos(p) == p + OBJ_HDR_LEN                         \* getFilePos() in getObjectDef

(***************************************************************************)
(* fileInput primitives on the slot grid                                   *)
(***************************************************************************)
\* fillBuffer( size, fl ): a zero size leaves the current buffer untouched
fillBuffer(f, in, size, fl) ==
    IF size = 0 THEN in
    ELSE [in EXCEPT !.bStart = fl, !.stopAt = fl + size, !.pos = fl,
                    !.blen = Max({0, Min({size, FileSize(f) - fl})})]

\* tmpBuf := fi.buffer[0:size] with a negative size aborts
fillBufferPanics(size) == size < 0

\* start of the next token after skipSpaces( false ); the header lines are comments
NextTokPos(f, p) ==
    IF p >= FileSize(f) THEN p
    ELSE IF Aligned(f, p)
         THEN (IF SlotAt(f, p).kind = "hdr" THEN p + f.slotW ELSE p)
         ELSE IF SlotAt(f, p).kind = "obj"
                 /\ p \in {ValPos(p - (p % f.slotW)), EndobjPos(f, p - (p % f.slotW))}
              THEN p
              ELSE p - (p % f.slotW) + f.slotW

\* nextToken(): "" at stopAt or at the end of the data, else the token class
TokenAt(f, in, q) ==
    IF q >= in.stopAt \/ q >= in.bStart + in.blen \/ q >= FileSize(f) THEN ""
    ELSE IF ~Aligned(f, q)
         THEN (IF q = ValPos(q - (q % f.slotW)) THEN "value" ELSE "endobj")
    ELSE IF SlotAt(f, q).kind = "xref" THEN "xref"
    ELSE "objhdr"

(***************************************************************************)
(* parseXrefSubsection                                                     *)
(***************************************************************************)
RECURSIVE InsertByStart(_, _)
InsertByStart(sorted, o) ==
    IF sorted = <<>> THEN <<o>>
    ELSE IF o.start < Head(sorted).start THEN <<o>> \o sorted
    ELSE <<Head(sorted)>> \o InsertByStart(Tail(sorted), o)

RECURSIVE SortByStart(_)
SortByStart(bnd) ==
    IF bnd = <<>> THEN <<>>
    ELSE InsertByStart(SortByStart(SubSeq(bnd, 1, Len(bnd) - 1)), bnd[Len(bnd)])

\* boundaries[i].stop = boundaries[i+1].start, the last one keeps -1
WithStops(bnd) ==
    [i \in 1..Len(bnd) |->
        IF i < Len(bnd) THEN [bnd[i] EXCEPT !.stop = bnd[i + 1].start] ELSE bnd[i]]

\* for i < badOffset - 1 : boundaries[i].start = -1   (i counted from 0)
Invalidate(bnd, badOffset) ==
    [i \in 1..Len(bnd) |->
        IF i - 1 < badOffset - 1 THEN [bnd[i] EXCEPT !.start = -1] ELSE bnd[i]]

\* the loop over the 20-byte entries; acc = [res, bnd, bad]
RECURSIVE XrefEntries(_, _, _, _, _, _)
XrefEntries(ents, i, start, maxObjPos, fixMode, acc) ==
    IF i > Len(ents) \/ acc.res # "ok" THEN acc
    ELSE LET e == ents[i]
             isBad == acc.bad # -1 \/ e.off > maxObjPos
             off == IF isBad THEN -1 ELSE e.off
         IN IF e.off < 0 THEN [acc EXCEPT !.res = "err"]
            ELSE IF e.use \notin {"n", "f"} THEN [acc EXCEPT !.res = "panic"]
            ELSE IF e.use = "f"
                 THEN XrefEntries(ents, i + 1, start, maxObjPos, fixMode, acc)
            ELSE IF isBad /\ ~fixMode THEN [acc EXCEPT !.res = "err"]
            ELSE XrefEntries(ents, i + 1, start, maxObjPos, fixMode,
                    [acc EXCEPT
                       !.bad = IF isBad /\ acc.bad = -1 THEN Len(acc.bnd) ELSE acc.bad,
                       !.bnd = Append(acc.bnd,
                                  [id |-> start + i - 1, gen |-> e.gen,
                                   start |-> off, stop |-> -1, value |-> -1])])

parseXrefSubsection(sub, maxObjPos, fixMode) ==
    LET acc == XrefEntries(sub.ents, 1, sub.first, maxObjPos, fixMode,
                           [res |-> "ok", bnd |-> <<>>, bad |-> -1])
    IN IF acc.res # "ok" THEN acc
       ELSE IF acc.bad = -1
            THEN [acc EXCEPT !.bnd = WithStops(SortByStart(acc.bnd))]
            ELSE [acc EXCEPT !.bnd = Invalidate(acc.bnd, acc.bad)]

\* pf.ObjById[id] = boundaries[i] unless the id is already present
MergeById(byId, bnd, base) ==
    [id \in DOMAIN byId |->
        IF byId[id] # 0 THEN byId[id]
        ELSE IF \E k \in 1..Len(bnd) : bnd[k].id = id
             THEN base + Min({ k \in 1..Len(bnd) : bnd[k].id = id })
             ELSE 0]

(***************************************************************************)
(* fileInput.parse                                                         *)
(***************************************************************************)
NoTrailer == [kw |-> FALSE, size |-> -1, root |-> -1, prev |-> -1, sx |-> -1, eof |-> FALSE]
NoObjById == [id \in 0..MaxId |-> 0]           \* make( map[int64]*PdfObject )
EmptyPf == [Header |-> -1, Version |-> -1, Objects |-> <<>>, ObjById |-> NoObjById,
            Trailer |-> NoTrailer, Size |-> -1, Catalog |-> -1]
NoInput == [bStart |-> 0, stopAt |-> 0, pos |-> 0, blen |-> 0, tok |-> ""]
NoLocals == [mainObjStart |-> 0, xrefStart |-> 0, blockEnd |-> 0, objEnd |-> 0,
             i |-> 0, main |-> FALSE]
NoFile == [slotW |-> 0, hdr |-> FALSE, minor |-> 0, nSec |-> 0, slots |-> <<>>,
           defect |-> "none"]
NoResult == [Version |-> -1, Catalog |-> -1, Objects |-> <<>>]
NoReturn == [pf |-> "none", err |-> "none"]

\* return pf, nil
OkReturn == [pf |-> "pf", err |-> "nil"]
\* a return that hands back the half-built PdfFile together with the error
PartialReturn == [pf |-> "pf", err |-> "err"]
\* return nil, err
ErrReturn == [pf |-> "nil", err |-> "err"]

\* the stage of parse() whose error is returned
Fail(stage) ==
    /\ pc' = "returned"
    /\ ret' = ErrReturn
    /\ failedAt' = stage

Abort == pc' = "panic" /\ UNCHANGED <<ret, failedAt>>

\* the values the variables of a machine keep while another one runs
NoValue == [kind |-> "none", Length |-> -1, Filter |-> "none", data |-> <<>>]
NoToken == [token |-> <<>>, offset |-> 0, tokFilePos |-> 0,
            savedToken |-> <<>>, savedOffset |-> -1, savedPos |-> 0]
IdleParse ==
    /\ file = NoFile /\ fix = FALSE /\ pc = "idle" /\ phase = 0
    /\ fi = NoInput /\ pf = EmptyPf /\ heap = <<>> /\ loc = NoLocals
    /\ ret = NoReturn /\ failedAt = "none" /\ first = NoResult /\ outFile = NoFile

IdleStream ==
    /\ sBuffer = <<>> /\ sFix = FALSE /\ sBytes = <<>> /\ sOffset = 0
    /\ sDeclared = -1 /\ sValue = NoValue /\ sCheckFix = FALSE /\ sPc = "idle"

IdleArray ==
    /\ aInput = [elems |-> <<>>, tight |-> FALSE] /\ aBuffer = <<>>
    /\ aFi = NoToken /\ aArray = <<>> /\ aPc = "idle"

\* an absent key of a dictionary, an absent result
NoEntry == [k |-> "none", id |-> 0, gen |-> 0, name |-> <<>>]
NoTrailerResult == [res |-> "none", Size |-> -1, Catalog |-> -1]
IdleDict ==
    /\ dInput = <<>> /\ dBuffer = <<>> /\ dFi = NoToken /\ dKeys = <<>>
    /\ dData = <<>> /\ dPf = NoTrailerResult /\ dOut = <<>> /\ dPc = "idle"

IdleCall ==
    /\ cArgs = <<>> /\ cResult = <<>> /\ cPc = "idle"

\* the file being parsed: the input, then (phase 2) the file Serialize wrote
CurFile == IF phase = 2 THEN outFile ELSE file

InitParse ==
    /\ file \in InputFiles
    /\ fix \in BOOLEAN
    /\ pc = "header"
    /\ phase = 1
    /\ fi = NoInput
    /\ pf = EmptyPf
    /\ heap = <<>>
    /\ loc = NoLocals
    /\ ret = NoReturn
    /\ failedAt = "none"
    /\ first = NoResult
    /\ outFile = NoFile
    /\ IdleStream /\ IdleArray /\ IdleDict /\ IdleCall

\* parseHeader / readFirstLine, then fillBuffer( INPUT_BUFFER_SIZE, 0 )
parseHeader ==
    /\ pc = "header"
    /\ IF ~CurFile.hdr
       THEN Fail("header") /\ UNCHANGED <<fi, pf, loc>>
       ELSE /\ pf' = [pf EXCEPT !.Header = CurFile.minor,
                                 !.Version = (CurFile.minor - DIGIT0) % 256]
            /\ fi' = [NoInput EXCEPT !.stopAt = FIRST_READ, !.pos = HEADER_END,
                                     !.blen = Min({FIRST_READ, FileSize(CurFile)})]
            /\ loc' = [loc EXCEPT !.mainObjStart = HEADER_END]
            /\ pc' = "hunt"
            /\ UNCHANGED <<ret, failedAt>>
    /\ UNCHANGED <<file, fix, phase, heap, first, outFile>>
    /\ UNCHANGED <<streamVars, arrayVars, dictVars, callVars>>

\* slots whose "startxref" lies in the last _STARTXREF_SIZE bytes
HuntSlots(f) ==
    { k \in 1..Len(f.slots) :
        /\ f.slots[k].kind = "xref"
        /\ f.slots[k].tr.sx # -1
        /\ k * f.slotW > FileSize(f) - STARTXREF_SIZE }

huntForXref ==
    /\ pc = "hunt"
    /\ IF FileSize(CurFile) < STARTXREF_SIZE            \* Seek( -512, SEEK_END ) fails
       THEN Fail("seek") /\ UNCHANGED <<fi, loc>>
       ELSE IF HuntSlots(CurFile) = {}
       THEN Fail("startxref") /\ UNCHANGED <<fi, loc>>
       ELSE LET k == Max(HuntSlots(CurFile))
                sx == CurFile.slots[k].tr.sx
            IN IF sx > FileSize(CurFile) /\ ~fix
               THEN Fail("startxref") /\ UNCHANGED <<fi, loc>>
               ELSE /\ loc' = [loc EXCEPT
                        !.xrefStart = IF sx > FileSize(CurFile)
                                      THEN (Max({ j \in 1..Len(CurFile.slots) :
                                                    CurFile.slots[j].kind = "xref" }) - 1)
                                           * CurFile.slotW
                                      ELSE sx,
                        !.blockEnd = FileSize(CurFile)]
                    /\ fi' = [fi EXCEPT !.bStart = FileSize(CurFile) - STARTXREF_SIZE,
                                        !.pos = AfterTrailer(CurFile, (k - 1) * CurFile.slotW)]
                    /\ pc' = "xref"
                    /\ UNCHANGED <<ret, failedAt>>
    /\ UNCHANGED <<file, fix, phase, pf, heap, first, outFile>>
    /\ UNCHANGED <<streamVars, arrayVars, dictVars, callVars>>

\* parseXrefTable( fi, xrefStart, blockEnd ), then blockEnd = xrefStart
parseXrefTable ==
    /\ pc = "xref"
    /\ LET size == loc.blockEnd - loc.xrefStart
           in1 == fillBuffer(CurFile, fi, size, loc.xrefStart)
           q == NextTokPos(CurFile, in1.pos)
           t == TokenAt(CurFile, in1, q)
           slot == SlotAt(CurFile, q)
           r == parseXrefSubsection(slot.subs[1], loc.xrefStart, fix)
           after == [loc EXCEPT !.objEnd = loc.xrefStart, !.blockEnd = loc.xrefStart]
       IN IF fillBufferPanics(size)
          THEN Abort /\ pf' = [pf EXCEPT !.ObjById = NoObjById]
                     /\ UNCHANGED <<fi, heap, loc>>
          ELSE IF t # "xref"                       \* return nil: no table at all
          THEN /\ pf' = [pf EXCEPT !.ObjById = NoObjById]
               /\ fi' = [in1 EXCEPT !.pos = q, !.tok = "other"]
               /\ loc' = after
               /\ pc' = "trailer"
               /\ UNCHANGED <<heap, ret, failedAt>>
          ELSE IF r.res = "panic"
          THEN Abort /\ pf' = [pf EXCEPT !.ObjById = NoObjById]
                     /\ fi' = in1 /\ UNCHANGED <<heap, loc>>
          ELSE IF r.res = "err"
          THEN Fail("xref") /\ pf' = [pf EXCEPT !.ObjById = NoObjById]
                            /\ fi' = in1 /\ UNCHANGED <<heap, loc>>
          ELSE /\ heap' = heap \o r.bnd
               /\ pf' = [pf EXCEPT !.ObjById = MergeById(NoObjById, r.bnd, Len(heap))]
               /\ fi' = [in1 EXCEPT !.pos = q,
                                    !.tok = IF Len(slot.subs) = 1 /\ slot.tr.kw
                                            THEN "trailer" ELSE "other"]
               /\ loc' = after
               /\ pc' = "trailer"
               /\ UNCHANGED <<ret, failedAt>>
    /\ UNCHANGED <<file, fix, phase, first, outFile>>
    /\ UNCHANGED <<streamVars, arrayVars, dictVars, callVars>>

\* parseTrailer, and the loop control of parse() that follows it
parseTrailer ==
    /\ pc = "trailer"
    /\ LET tr == SlotAt(CurFile, fi.pos).tr
           prev == IF tr.prev # -1 THEN tr.prev ELSE 0
       IN IF fi.tok # "trailer"
          THEN Fail("trailer") /\ UNCHANGED <<fi, pf, loc>>
          ELSE IF tr.size = -1
          THEN Fail("trailer") /\ pf' = [pf EXCEPT !.Trailer = tr]
                               /\ UNCHANGED <<fi, loc>>
          ELSE IF tr.root = -1
          THEN Fail("trailer") /\ pf' = [pf EXCEPT !.Trailer = tr, !.Size = tr.size]
                               /\ UNCHANGED <<fi, loc>>
          ELSE IF tr.sx = -1 \/ ~tr.eof
          THEN Fail("trailer")
               /\ pf' = [pf EXCEPT !.Trailer = tr, !.Size = tr.size, !.Catalog = tr.root]
               /\ UNCHANGED <<fi, loc>>
          ELSE /\ pf' = [pf EXCEPT !.Trailer = tr, !.Size = tr.size, !.Catalog = tr.root]
               /\ fi' = [fi EXCEPT !.pos = AfterTrailer(CurFile, fi.pos), !.tok = ""]
               /\ loc' = [loc EXCEPT !.xrefStart = prev,
                                     !.i = IF prev # 0 /\ loc.i = 0 THEN 1 ELSE loc.i,
                                     !.main = FALSE]
               /\ pc' = IF prev = 0 THEN "mainbody"
                        ELSE IF loc.i > 0 THEN "walk" ELSE "xref"
               /\ UNCHANGED <<ret, failedAt>>
    /\ UNCHANGED <<file, fix, phase, heap, first, outFile>>
    /\ UNCHANGED <<streamVars, arrayVars, dictVars, callVars>>

\* parseObjects( fi, mainObjStart, objEnd ): the fillBuffer before the loop
parseObjectsMain ==
    /\ pc = "mainbody"
    /\ LET size == loc.objEnd - loc.mainObjStart
       IN IF loc.objEnd # 0 /\ fillBufferPanics(size)
          THEN Abort /\ UNCHANGED <<fi, loc>>
          ELSE /\ fi' = IF loc.objEnd # 0
                        THEN fillBuffer(CurFile, fi, size, loc.mainObjStart) ELSE fi
               /\ loc' = [loc EXCEPT !.main = TRUE]
               /\ pc' = "walk"
               /\ UNCHANGED <<ret, failedAt>>
    /\ UNCHANGED <<file, fix, phase, pf, heap, first, outFile>>
    /\ UNCHANGED <<streamVars, arrayVars, dictVars, callVars>>

\* parseObjects( fi, 0, 0 ) walks an update body, the last call the main body
WalkStage == IF loc.main THEN "main body" ELSE "update body"

\* one turn of the loop of parseObjects: one token, one indirect object
parseObjects ==
    /\ pc = "walk"
    /\ LET q == NextTokPos(CurFile, fi.pos)
           t == TokenAt(CurFile, fi, q)
           slot == SlotAt(CurFile, q)
           p == pf.ObjById[slot.id]                 \* objDef, 0 is nil
           objDef == heap[p]
           start == IF objDef.start = -1 THEN q ELSE objDef.start
           stop == IF objDef.stop = -1 THEN EndobjPos(CurFile, q) ELSE objDef.stop
       IN IF fi.pos < fi.bStart                     \* buffer[ offset ], offset < 0
          THEN Abort /\ UNCHANGED <<fi, pf, heap, loc>>
          ELSE IF t \in {"", "xref"}                \* break; return nil
          THEN IF loc.main
               THEN /\ pc' = "returned"
                    /\ ret' = OkReturn
                    /\ UNCHANGED <<fi, pf, heap, loc, failedAt>>
               ELSE /\ pc' = "xref"
                    /\ loc' = [loc EXCEPT !.i = loc.i + 1]
                    /\ fi' = [fi EXCEPT !.pos = q]
                    /\ UNCHANGED <<pf, heap, ret, failedAt>>
          ELSE IF t # "objhdr"                      \* getIndirectObjectDef fails
          THEN Fail(WalkStage) /\ UNCHANGED <<fi, pf, heap, loc>>
          ELSE IF p = 0                             \* objDef.stop on a nil objDef
          THEN Abort /\ UNCHANGED <<fi, pf, heap, loc>>
          ELSE IF objDef.gen = slot.gen
          THEN IF (objDef.stop # -1 /\ objDef.stop <= ValPos(q)) \/ slot.val = 0
               THEN /\ Fail(WalkStage)
                    /\ heap' = [heap EXCEPT ![p].start = start]
                    /\ UNCHANGED <<fi, pf, loc>>
               ELSE /\ heap' = [heap EXCEPT ![p].start = start, ![p].stop = stop,
                                            ![p].value = slot.val]
                    /\ pf' = [pf EXCEPT !.Objects = Append(pf.Objects, p)]
                    /\ fi' = [fi EXCEPT !.pos = AfterEndobj(CurFile, q)]
                    /\ UNCHANGED <<pc, loc, ret, failedAt>>
          ELSE \* fi.skipInBufferTo( objDef.stop )
               IF objDef.stop > fi.stopAt
               THEN Abort /\ UNCHANGED <<fi, pf, heap, loc>>
               ELSE IF objDef.stop - fi.bStart >= fi.blen
               THEN IF fillBufferPanics(fi.stopAt - objDef.stop)
                    THEN Abort /\ UNCHANGED <<fi, pf, heap, loc>>
                    ELSE /\ fi' = fillBuffer(CurFile, [fi EXCEPT !.pos = ValPos(q)],
                                             fi.stopAt - objDef.stop, objDef.stop)
                         /\ UNCHANGED <<pc, pf, heap, loc, ret, failedAt>>
               ELSE /\ fi' = [fi EXCEPT !.pos = objDef.stop]
                    /\ UNCHANGED <<pc, pf, heap, loc, ret, failedAt>>
    /\ UNCHANGED <<file, fix, phase, first, outFile>>
    /\ UNCHANGED <<streamVars, arrayVars, dictVars, callVars>>

(***************************************************************************)
(* PdfFile.Serialize.  Object j of pf.Objects is written in slot j+1 of    *)
(* the output, the XREF table and the trailer in the slot after the last   *)
(* object.                                                                 *)
(***************************************************************************)
\* serializeObjects: obj.start = current file position, for each pointer in turn
serializeObjects(w) ==
    [k \in 1..Len(heap) |->
        IF \E j \in 1..Len(pf.Objects) : pf.Objects[j] = k
        THEN [heap[k] EXCEPT
                !.start = Max({ j \in 1..Len(pf.Objects) : pf.Objects[j] = k }) * w]
        ELSE heap[k]]

\* serializeXREF: for id := 1; id <= len( pdf.Objects ); id++ { pdf.ObjById[id].start }
serializeXREFPanics ==
    \E id \in 1..Len(pf.Objects) : id \notin DOMAIN pf.ObjById \/ pf.ObjById[id] = 0

serializeXREF(cells) ==
    [first |-> 0,
     ents |-> <<[off |-> 0, gen |-> FREE_GEN, use |-> "f"]>> \o
              [id \in 1..Len(pf.Objects) |->
                 [off |-> cells[pf.ObjById[id]].start,
                  gen |-> cells[pf.ObjById[id]].gen, use |-> "n"]]]

serializeTrailer(lastId, xrefPos) ==
    [kw |-> TRUE, size |-> lastId, root |-> pf.Catalog, prev |-> pf.Trailer.prev,
     sx |-> xrefPos, eof |-> TRUE]

Serialize ==
    /\ pc = "returned"
    /\ phase = 1
    /\ ret = OkReturn
    /\ LET w == file.slotW
           n == Len(pf.Objects)
           cells == serializeObjects(w)
           objs == [j \in 1..n |->
                      [kind |-> "obj", id |-> heap[pf.Objects[j]].id,
                       gen |-> heap[pf.Objects[j]].gen,
                       val |-> heap[pf.Objects[j]].value]]
       IN /\ heap' = cells
          /\ IF serializeXREFPanics
             THEN /\ pc' = "serpanic"
                  /\ outFile' = [NoFile EXCEPT !.slotW = w, !.hdr = TRUE,
                                    !.minor = pf.Header,
                                    !.slots = <<[kind |-> "hdr"]>> \o objs]
             ELSE /\ pc' = "serialized"
                  /\ outFile' = [NoFile EXCEPT !.slotW = w, !.hdr = TRUE,
                                    !.minor = pf.Header, !.nSec = 1,
                                    !.slots = <<[kind |-> "hdr"]>> \o objs \o
                                        <<[kind |-> "xref",
                                           subs |-> <<serializeXREF(cells)>>,
                                           tr |-> serializeTrailer(n + 1, (n + 1) * w)]>>]
    /\ UNCHANGED <<file, fix, phase, fi, pf, loc, ret, failedAt, first>>
    /\ UNCHANGED <<streamVars, arrayVars, dictVars, callVars>>

\* what a parse result exposes: version, catalog and the objects in order
Result ==
    [Version |-> pf.Version, Catalog |-> pf.Catalog,
     Objects |-> [j \in 1..Len(pf.Objects) |->
                    [id |-> heap[pf.Objects[j]].id, gen |-> heap[pf.Objects[j]].gen,
                     value |-> heap[pf.Objects[j]].value]]]

\* Parse( F' ): a new fileInput and a new PdfFile on the file just written
Reparse ==
    /\ pc = "serialized"
    /\ first' = Result
    /\ phase' = 2
    /\ pc' = "header"
    /\ fi' = NoInput
    /\ pf' = EmptyPf
    /\ heap' = <<>>
    /\ loc' = NoLocals
    /\ ret' = NoReturn
    /\ failedAt' = "none"
    /\ UNCHANGED <<file, fix, outFile>>
    /\ UNCHANGED <<streamVars, arrayVars, dictVars, callVars>>

NextParse ==
    \/ parseHeader
    \/ huntForXref
    \/ parseXrefTable
    \/ parseTrailer
    \/ parseObjectsMain
    \/ parseObjects
    \/ Serialize
    \/ Reparse


(***************************************************************************)
(* Byte-level fileInput: the buffer is a sequence of byte values, offsets  *)
(* are 0-based as in the code, and the buffer holds the whole window       *)
(* (bStart = 0, stopAt = size = len( buffer )).                            *)
(***************************************************************************)

ByteAt(buf, off) == buf[off + 1]
Slice(buf, from, to) == SubSeq(buf, from + 1, to)           \* buf[from:to]

\* bytes.Index( buf, pat ): 0-based index of the first occurrence, or -1
Index(buf, pat) ==
    LET hits == { i \in 0..(Len(buf) - Len(pat)) : Slice(buf, i, i + Len(pat)) = pat }
    IN IF hits = {} THEN -1 ELSE Min(hits)

\* skipSpaces( noComment ): the offset of the first byte that is kept
RECURSIVE skipSpaces(_, _, _, _)
skipSpaces(buf, i, noComment, inComment) ==
    IF i >= Len(buf) THEN Len(buf)
    ELSE LET b == ByteAt(buf, i)
         IN IF b \in {LF, CR} THEN skipSpaces(buf, i + 1, noComment, FALSE)
            ELSE IF b \in {SP, 9, 12} THEN skipSpaces(buf, i + 1, noComment, inComment)
            ELSE IF b = PERCENT
                 THEN (IF noComment THEN i ELSE skipSpaces(buf, i + 1, noComment, TRUE))
            ELSE IF inComment THEN skipSpaces(buf, i + 1, noComment, inComment)
            ELSE i

\* the token loop of nextToken; previous is the last byte written to sb; end
\* tells that the loop left the buffer without a token end
RECURSIVE scanToken(_, _, _)
scanToken(buf, i, sb) ==
    IF i >= Len(buf) THEN [token |-> sb, offset |-> i, end |-> TRUE]
    ELSE LET b == ByteAt(buf, i)
             previous == IF sb = <<>> THEN 0 ELSE sb[Len(sb)]
             more == scanToken(buf, i + 1, Append(sb, b))
         IN IF b \in {LT, GT}
            THEN (IF Len(sb) > 1 THEN [token |-> sb, offset |-> i, end |-> FALSE]
                  ELSE IF previous = LT THEN [token |-> <<LT, LT>>, offset |-> i + 1, end |-> FALSE]
                  ELSE IF previous = GT THEN [token |-> <<GT, GT>>, offset |-> i + 1, end |-> FALSE]
                  ELSE more)
            ELSE IF b = SLASH
            THEN (IF Len(sb) > 0 THEN [token |-> <<b>>, offset |-> i, end |-> FALSE] ELSE more)
            ELSE IF b \in {LBRACKET, RBRACKET, LPAREN} /\ Len(sb) = 0
            THEN [token |-> <<b>>, offset |-> i + 1, end |-> FALSE]
            ELSE IF b \in {LBRACKET, RBRACKET, LPAREN, CR, LF, 0, 9, 12, SP, PERCENT}
            THEN [token |-> sb, offset |-> i, end |-> FALSE]
            ELSE IF Len(sb) = 1 /\ previous \in {LT, GT}
            THEN [token |-> sb, offset |-> i, end |-> FALSE]
            ELSE more

\* nextToken(): [token, offset, tokFilePos, start]; start is the offset after
\* skipSpaces, the value nextToken gives to a pending savedOffset
nextToken(buf, off) ==
    LET i == skipSpaces(buf, off, FALSE, FALSE)
        t == scanToken(buf, i, <<>>)
    IN IF i >= Len(buf)
       THEN [token |-> <<>>, offset |-> i, tokFilePos |-> i, start |-> i]
       ELSE [token |-> t.token, offset |-> t.offset, tokFilePos |-> i, start |-> i]

(***************************************************************************)
(* Streams: getDictionaryOrStream / getStreamBytes.  Numbers of the        *)
(* dictionary (pdfNumber, a float64) are held as twice their value, so     *)
(* that a Length with a fractional part can be told from an integer one.   *)
(***************************************************************************)
\* int64( l ), int( l ): truncation of the float
ToInt(n2) == n2 \div 2
\* pdfNumber( len( stream ) )
ToNumber(n) == 2 * n

\* skipCurrentEOL( true ): the offset after the EOL, or -1 (no EOL, or error)
skipCurrentEOL(buf, off) ==
    IF off >= Len(buf) THEN -1
    ELSE IF ByteAt(buf, off) = CR
         THEN (IF off + 1 < Len(buf) /\ ByteAt(buf, off + 1) = LF THEN off + 2 ELSE -1)
    ELSE IF ByteAt(buf, off) = LF THEN off + 1
    ELSE -1

checkExpectedEndStream(buf, off, l, stop) ==
    LET expectedEnd == off + l
        localBuffer == IF expectedEnd + NEAR_WINDOW < Len(buf)
                       THEN Slice(buf, expectedEnd, expectedEnd + NEAR_WINDOW)
                       ELSE Slice(buf, expectedEnd,
                                  Min({Len(buf), expectedEnd + FILE_WINDOW}))
        end == Index(localBuffer, ENDSTREAM)
    IN IF expectedEnd > Len(buf) THEN -1
       ELSE IF stop # -1 /\ expectedEnd > stop THEN -1
       ELSE IF localBuffer = <<>> THEN -1               \* Read returns io.EOF
       ELSE IF end = -1 THEN -1
       ELSE IF end = 2 /\ ByteAt(localBuffer, 1) = LF /\ ByteAt(localBuffer, 0) = CR
            THEN l
       ELSE IF end = 1 /\ ByteAt(localBuffer, 0) \in {LF, CR} THEN l
       ELSE l + end

\* readNBytes( n ): [res, bytes, offset]; n = 0 returns before fi.bytes is renewed
readNBytes(buf, off, n, bytes) ==
    IF n = 0 THEN [res |-> 0, bytes |-> bytes, offset |-> off]
    ELSE IF n <= Len(buf) - off
         THEN [res |-> n, bytes |-> Slice(buf, off, off + n), offset |-> off + n]
         ELSE [res |-> Len(buf) - off, bytes |-> Slice(buf, off, Len(buf)),
               offset |-> Len(buf)]

\* readUpToEndstream(): [res, bytes, offset]; res = -1 when there is no endstream
readUpToEndstream(buf, off) ==
    LET end == Index(Slice(buf, off, Len(buf)), ENDSTREAM)
    IN IF end = -1
       THEN [res |-> -1, bytes |-> Slice(buf, off, Len(buf)), offset |-> Len(buf)]
       ELSE [res |-> end, bytes |-> Slice(buf, off, off + end),
             offset |-> off + end + Len(ENDSTREAM)]

\* getStreamBytes( fi, l, stop ): [res, bytes, offset]
getStreamBytes(buf, off0, l, stop, fixMode, bytes0) ==
    LET off == skipCurrentEOL(buf, off0)
        actual == checkExpectedEndStream(buf, off, l, stop)
        up == readUpToEndstream(buf, off)
        rd == readNBytes(buf, off, actual, bytes0)
        tk == nextToken(buf, rd.offset)
    IN IF off = -1 THEN [res |-> "err", bytes |-> bytes0, offset |-> off0]
       ELSE IF actual = -1
       THEN (IF ~fixMode THEN [res |-> "err", bytes |-> bytes0, offset |-> off]
             ELSE IF up.res = -1 THEN [res |-> "err", bytes |-> up.bytes, offset |-> up.offset]
             ELSE [res |-> "ok", bytes |-> up.bytes,
                   offset |-> nextToken(buf, up.offset).offset])
       ELSE IF l # actual /\ ~fixMode
       THEN [res |-> "err", bytes |-> bytes0, offset |-> off]
       ELSE IF rd.res < actual THEN [res |-> "panic", bytes |-> rd.bytes, offset |-> rd.offset]
       ELSE IF tk.token # ENDSTREAM
       THEN [res |-> "panic", bytes |-> rd.bytes, offset |-> tk.offset]
       ELSE [res |-> "ok", bytes |-> rd.bytes, offset |-> nextToken(buf, tk.offset).offset]

makeNibbleFromHexChar(c) ==
    IF c < 48 THEN 255
    ELSE IF c <= 57 THEN c - 48
    ELSE LET u == IF (c \div 32) % 2 = 1 THEN c - 32 ELSE c        \* c &^= 0x20
         IN IF u < 65 \/ u > 70 THEN 255 ELSE u - 65 + 10

\* checkASCIIHexDecode: [err, out]; st = [dl, offset, val, out]
RECURSIVE hexDecodeLoop(_, _, _)
hexDecodeLoop(data, i, st) ==
    IF i > Len(data) \/ data[i] = GT THEN [err |-> FALSE, st |-> st]
    ELSE IF data[i] \in {0, 9, LF, 12, CR, SP} THEN hexDecodeLoop(data, i + 1, st)
    ELSE LET nib == makeNibbleFromHexChar(data[i])
         IN IF nib = 255 THEN [err |-> TRUE, st |-> st]
            ELSE IF st.offset % 2 = 0
            THEN hexDecodeLoop(data, i + 1, [st EXCEPT !.val = nib, !.offset = @ + 1])
            ELSE hexDecodeLoop(data, i + 1,
                    [st EXCEPT !.out = Append(@, (st.val * 16 + nib) % 256),
                               !.dl = @ + 1, !.offset = @ + 1])

checkASCIIHexDecode(data) ==
    LET r == hexDecodeLoop(data, 1, [dl |-> 0, offset |-> 0, val |-> 0, out |-> <<>>])
    IN IF r.err THEN [err |-> TRUE, out |-> r.st.out]
       ELSE IF r.st.dl % 2 = 1                                     \* if dl & 1 == 1
            THEN [err |-> FALSE, out |-> Append(r.st.out, (r.st.val * 16) % 256)]
            ELSE [err |-> FALSE, out |-> r.st.out]

(***************************************************************************)
(* Stream inputs: the bytes that follow the keyword `stream`               *)
(***************************************************************************)
Chunks == {DATA, <<LF>>, <<CR>>, ENDSTREAM}
KeywordEOLs == {<<LF>>, <<CR, LF>>, <<CR>>}
Filters == {"none", "ASCIIHexDecode", "DCTDecode", "ASCII85Decode", "RunLengthDecode"}

RECURSIVE Flatten(_)
Flatten(ss) == IF ss = <<>> THEN <<>> ELSE Head(ss) \o Flatten(Tail(ss))

StreamBuffers ==
    { eol \o Flatten(cs) \o ENDOBJ_TAIL :
        eol \in KeywordEOLs, cs \in UNION { [1..n -> Chunks] : n \in 0..MaxChunks } }

InitStream ==
    /\ sBuffer \in StreamBuffers
    /\ sFix \in BOOLEAN
    /\ sBytes \in {<<>>, DATA \o DATA}
    /\ sOffset = 0
    /\ sDeclared = -1
    /\ sValue = NoValue
    /\ sCheckFix = FALSE
    /\ sPc = "stream"
    /\ IdleParse /\ IdleArray /\ IdleDict /\ IdleCall

\* getDictionaryOrStream from the token "stream" on; the dictionary << /Length l
\* /Filter f >> has just been read into m
getDictionaryOrStream ==
    /\ sPc = "stream"
    /\ \E l2 \in 0..(2 * MaxLength + 1), f \in Filters, stop \in {-1, Len(sBuffer)} :
         LET l == ToInt(l2)
             r == getStreamBytes(sBuffer, sOffset, l, stop, sFix, sBytes)
             stream == r.bytes
         IN /\ sDeclared' = l2
            /\ sBytes' = r.bytes
            /\ sOffset' = r.offset
            /\ sValue' = IF r.res = "ok"
                         THEN [kind |-> "stream",
                               Length |-> IF Len(stream) # ToInt(l2)
                                          THEN ToNumber(Len(stream)) ELSE l2,
                               Filter |-> f, data |-> stream]
                         ELSE [NoValue EXCEPT !.kind = r.res]
    /\ sPc' = "parsed"
    /\ UNCHANGED <<sBuffer, sFix, sCheckFix>>
    /\ UNCHANGED <<parseVars, arrayVars, dictVars, callVars>>

\* what jpeg.Analyze / Generate (an external library) may answer for the data:
\* an error, or the data to keep (in fix mode the regenerated image)
DCTOutcomes(data, fixMode) ==
    {[err |-> TRUE, data |-> <<>>], [err |-> FALSE, data |-> data]}
    \cup (IF fixMode
          THEN {[err |-> FALSE, data |-> data \o DATA],
                [err |-> FALSE, data |-> Slice(data, 0, Max({0, Len(data) - 1}))]}
          ELSE {})

\* checkStream( &stream, verbose, fix ): [err, stream]
checkStream(stream, fixMode, dct) ==
    IF stream.Filter = "DCTDecode"
    THEN (IF dct.err THEN [err |-> TRUE, stream |-> stream]
          ELSE IF fixMode
          THEN [err |-> FALSE,
                stream |-> [stream EXCEPT !.data = dct.data,
                                          !.Length = ToNumber(Len(dct.data))]]
          ELSE [err |-> FALSE, stream |-> stream])
    ELSE IF stream.Filter = "ASCIIHexDecode"
    THEN [err |-> checkASCIIHexDecode(stream.data).err, stream |-> stream]
    ELSE [err |-> FALSE, stream |-> stream]

\* CheckStreams( verbose, fix ) on the object holding the stream
CheckStreams ==
    /\ sPc = "parsed"
    /\ sValue.kind = "stream"
    /\ \E cfix \in BOOLEAN :
         \E dct \in DCTOutcomes(sValue.data, cfix) :
            LET r == checkStream(sValue, cfix, dct)
            IN /\ sCheckFix' = cfix
               /\ IF r.err
                  THEN sPc' = "checkerr" /\ UNCHANGED sValue
                  ELSE sPc' = "checked" /\ sValue' = r.stream
    /\ UNCHANGED <<sBuffer, sFix, sBytes, sOffset, sDeclared>>
    /\ UNCHANGED <<parseVars, arrayVars, dictVars, callVars>>

NextStream ==
    \/ getDictionaryOrStream
    \/ CheckStreams

(***************************************************************************)
(* Look-ahead and arrays: saveCurrentToken, restoreCurrentToken,           *)
(* getNumberOrObjRef, getName, getObjectDef, getArray                      *)
(***************************************************************************)
fiNextToken(buf, f) ==
    LET t == nextToken(buf, f.offset)
    IN [f EXCEPT !.token = t.token, !.offset = t.offset, !.tokFilePos = t.tokFilePos,
                 !.savedOffset = IF f.savedOffset # -1 THEN t.start ELSE -1]

saveCurrentToken(f) ==
    [f EXCEPT !.savedToken = f.token, !.savedPos = f.tokFilePos, !.savedOffset = f.offset]

restoreCurrentToken(f) ==
    [f EXCEPT !.token = f.savedToken, !.tokFilePos = f.savedPos,
              !.offset = f.savedOffset, !.savedToken = <<>>, !.savedOffset = -1]

IsDigit(b) == b >= DIGIT0 /\ b <= DIGIT9

RECURSIVE DecValue(_)
DecValue(digits) ==
    IF digits = <<>> THEN 0
    ELSE 10 * DecValue(SubSeq(digits, 1, Len(digits) - 1))
         + (digits[Len(digits)] - DIGIT0)

\* getPositiveInteger( token ): [ok, val]; strconv.ParseInt( token, 10, 32 )
getPositiveInteger(token) ==
    LET digits == IF token[1] = PLUS THEN Tail(token) ELSE token
    IN IF ~IsDigit(token[1]) /\ token[1] # PLUS THEN [ok |-> FALSE, val |-> 0]
       ELSE IF digits = <<>> \/ \E k \in 1..Len(digits) : ~IsDigit(digits[k])
       THEN [ok |-> FALSE, val |-> 0]
       ELSE IF DecValue(digits) > 2147483647 THEN [ok |-> FALSE, val |-> 0]
       ELSE [ok |-> TRUE, val |-> DecValue(digits)]

Number(n) == [k |-> "num", id |-> n, gen |-> 0, name |-> <<>>]
Reference(i, g) == [k |-> "ref", id |-> i, gen |-> g, name |-> <<>>]
Name(n) == [k |-> "name", id |-> 0, gen |-> 0, name |-> n]

\* getNumber( fi ): strconv.ParseFloat, for tokens made of digits
getNumber(buf, f) ==
    IF \A k \in 1..Len(f.token) : IsDigit(f.token[k])
    THEN [res |-> "ok", val |-> Number(DecValue(f.token)), fi |-> fiNextToken(buf, f)]
    ELSE [res |-> "err", val |-> Number(0), fi |-> f]

\* getNumberOrObjRef( fi ): [res, val, fi]; token[0] of an empty token aborts
getNumberOrObjRef(buf, f) ==
    LET id == getPositiveInteger(f.token)
        f1 == fiNextToken(buf, f)
        g == getPositiveInteger(f1.token)
        f2 == fiNextToken(buf, saveCurrentToken(f1))
    IN IF ~id.ok THEN getNumber(buf, f)
       ELSE IF f1.token = <<>> THEN [res |-> "panic", val |-> Number(0), fi |-> f1]
       ELSE IF ~g.ok THEN [res |-> "ok", val |-> Number(id.val), fi |-> f1]
       ELSE IF f2.token = KEYWORD_R
       THEN [res |-> "ok", val |-> Reference(id.val, g.val), fi |-> fiNextToken(buf, f2)]
       ELSE [res |-> "ok", val |-> Number(id.val), fi |-> restoreCurrentToken(f2)]

\* the loop of getName from token[i] on: [ok, name]; c is a byte, so that
\* c <<= 4 and c += nibble wrap at 256
RECURSIVE getNameLoop(_, _, _)
getNameLoop(token, i, name) ==
    IF i >= Len(token) THEN [ok |-> TRUE, name |-> name]
    ELSE IF ByteAt(token, i) = HASH
    THEN (IF i + 2 >= Len(token) THEN [ok |-> FALSE, name |-> <<>>]
          ELSE LET c == makeNibbleFromHexChar(ByteAt(token, i + 1))
                   c2 == (((c * 16) % 256) + makeNibbleFromHexChar(ByteAt(token, i + 2))) % 256
               IN IF c = 255 THEN [ok |-> FALSE, name |-> <<>>]
                  ELSE IF c2 = 255 THEN [ok |-> FALSE, name |-> <<>>]
                  ELSE getNameLoop(token, i + 3,
                                   name \o <<HASH, ByteAt(token, i + 1), ByteAt(token, i + 2)>>))
    ELSE getNameLoop(token, i + 1, Append(name, ByteAt(token, i)))

\* getName( fi ): [res, val, fi]
getName(buf, f) ==
    LET r == getNameLoop(f.token, 1, <<>>)
    IN IF r.ok THEN [res |-> "ok", val |-> Name(r.name), fi |-> fiNextToken(buf, f)]
       ELSE [res |-> "err", val |-> Name(<<>>), fi |-> f]

\* getObjectDef( fi, -1 ) for the tokens an array of numbers, references and names has
getObjectDef(buf, f) ==
    IF f.token = <<>> THEN [res |-> "panic", val |-> Number(0), fi |-> f]
    ELSE IF f.token[1] = SLASH THEN getName(buf, f)
    ELSE IF f.token[1] = PLUS \/ IsDigit(f.token[1]) THEN getNumberOrObjRef(buf, f)
    ELSE [res |-> "err", val |-> Number(0), fi |-> f]

(***************************************************************************)
(* Array inputs: the elements and how tightly they are written.  A tight   *)
(* array leaves out the white space PDF does not require: after `[`,       *)
(* before `]` and before the `/` of a name.                                *)
(***************************************************************************)
Digit(d) == <<DIGIT0 + d>>
Elems == {Number(1), Number(2), Reference(3, 0), Name(Tail(NAME_N))}
ArrayInputs ==
    { [elems |-> es, tight |-> t] :
        es \in UNION { [1..n -> Elems] : n \in 1..MaxElems }, t \in BOOLEAN }

ElemTokens(e) ==
    IF e.k = "num" THEN <<Digit(e.id)>>
    ELSE IF e.k = "ref" THEN <<Digit(e.id), Digit(e.gen), KEYWORD_R>>
    ELSE <<<<SLASH>> \o e.name>>

RECURSIVE Join(_, _)
Join(toks, tight) ==
    IF toks = <<>> THEN (IF tight THEN <<>> ELSE <<SP>>)
    ELSE (IF tight /\ Head(toks)[1] = SLASH THEN <<>> ELSE <<SP>>)
         \o Head(toks) \o Join(Tail(toks), tight)

Render(in) ==
    LET toks == Flatten([j \in 1..Len(in.elems) |-> ElemTokens(in.elems[j])])
        body == Join(toks, in.tight)
    IN <<LBRACKET>> \o (IF in.tight /\ body[1] = SP THEN Tail(body) ELSE body)
       \o <<RBRACKET>> \o ENDOBJ_TAIL

InitArray ==
    /\ aInput \in ArrayInputs
    /\ aBuffer = Render(aInput)
    /\ aFi = fiNextToken(aBuffer, NoToken)          \* the token "["
    /\ aArray = <<>>
    /\ aPc = "array"
    /\ IdleParse /\ IdleStream /\ IdleDict /\ IdleCall

\* getArray: array := make( ... ); fi.nextToken()
getArray ==
    /\ aPc = "array"
    /\ aFi' = fiNextToken(aBuffer, aFi)
    /\ aPc' = "element"
    /\ UNCHANGED <<aInput, aBuffer, aArray>>
    /\ UNCHANGED <<parseVars, streamVars, dictVars, callVars>>

\* one turn of the loop of getArray
getArrayLoop ==
    /\ aPc = "element"
    /\ LET r == getObjectDef(aBuffer, aFi)
       IN IF aFi.token = <<RBRACKET>>
          THEN /\ aFi' = fiNextToken(aBuffer, aFi)
               /\ aPc' = "done"
               /\ UNCHANGED aArray
          ELSE IF r.res = "ok"
          THEN /\ aFi' = r.fi
               /\ aArray' = Append(aArray, r.val)
               /\ UNCHANGED aPc
          ELSE /\ aFi' = r.fi
               /\ aPc' = IF r.res = "panic" THEN "panic" ELSE "error"
               /\ UNCHANGED aArray
    /\ UNCHANGED <<aInput, aBuffer>>
    /\ UNCHANGED <<parseVars, streamVars, dictVars, callVars>>

NextArray ==
    \/ getArray
    \/ getArrayLoop

(***************************************************************************)
(* Dictionaries: getDictionaryOrStream builds the key list k and the map   *)
(* m; serializeDictionary writes them back; parseTrailer reads Size and    *)
(* Root out of the trailer's dictionary.                                   *)
(***************************************************************************)
KEY_SIZE == <<83, 105, 122, 101>>           \* "Size"
KEY_ROOT == <<82, 111, 111, 116>>           \* "Root"
DictKeys == {KEY_SIZE, KEY_ROOT, Tail(NAME_N)}
DictVals == {Number(1), Reference(0, 0), Reference(1, 0), Name(Tail(NAME_N))}
DictEntries == { [key |-> k, val |-> v] : k \in DictKeys, v \in DictVals }
KEY_LENGTH == <<76, 101, 110, 103, 116, 104>>  \* "Length"
\* a tight dictionary leaves out the white space before the `/` of a name
DictInputs ==
    { [role |-> r, entries |-> es, tight |-> FALSE] :
        r \in {"object", "trailer"},
        es \in UNION { [1..n -> DictEntries] : n \in 1..MaxEntries } }
    \cup { [role |-> "object", entries |-> es, tight |-> TRUE] :
             es \in UNION { [1..n -> DictEntries] : n \in 1..MaxEntries } }
    \cup { [role |-> "stream", entries |-> es, tight |-> FALSE] :
             es \in UNION { [1..n -> { [key |-> k, val |-> v] :
                                         k \in {KEY_LENGTH, Tail(NAME_N)}, v \in DictVals }]
                             : n \in 0..MaxEntries } }

\* the dictionary as a file holds it: << /key value ... >>
DictTokens(es) ==
    Flatten([j \in 1..Len(es) |-> <<<<SLASH>> \o es[j].key>> \o ElemTokens(es[j].val)])

\* for a stream the dictionary is followed by `stream`, one byte of data and
\* `endstream`
RenderDict(in) ==
    <<LT, LT>> \o Join(DictTokens(in.entries), in.tight) \o <<GT, GT>>
    \o (IF in.role = "stream"
        THEN <<LF>> \o SubSeq(ENDSTREAM, 4, 9) \o <<LF>> \o DATA \o <<LF>> \o ENDSTREAM
        ELSE <<>>)
    \o ENDOBJ_TAIL

\* m[ key ] = val
MapPut(m, key, val) ==
    [x \in (DOMAIN m) \cup {key} |-> IF x = key THEN val ELSE m[x]]

\* serializeValue( f, v ) for names, numbers without fraction and references
serializeValue(v) ==
    IF v.k = "name" THEN <<SLASH>> \o v.name
    ELSE IF v.k = "ref" THEN Digit(v.id) \o <<SP>> \o Digit(v.gen) \o <<SP>> \o KEYWORD_R
    ELSE Digit(v.id)

\* the loop of serializeDictionary: [res, out]
RECURSIVE serializeEntries(_, _)
serializeEntries(keys, d) ==
    IF keys = <<>> THEN [res |-> "ok", out |-> <<>>]
    ELSE IF Head(keys) \notin DOMAIN d THEN [res |-> "panic", out |-> <<>>]
    ELSE LET rest == serializeEntries(Tail(keys), d)
         IN [res |-> rest.res,
             out |-> <<SLASH>> \o Head(keys) \o <<SP>> \o serializeValue(d[Head(keys)])
                     \o <<LF>> \o rest.out]

\* pf.getRefFromTrailer( dic, key ): the reference, or NoEntry for nil
getRefFromTrailer(d, key) ==
    IF key \in DOMAIN d /\ d[key].k = "ref" THEN d[key] ELSE NoEntry

InitDict ==
    /\ dInput \in DictInputs
    /\ dBuffer = RenderDict(dInput)
    /\ dFi = fiNextToken(dBuffer, NoToken)          \* the token "<<"
    /\ dKeys = <<>>
    /\ dData = <<>>
    /\ dPf = NoTrailerResult
    /\ dOut = <<>>
    /\ dPc = "dict"
    /\ IdleParse /\ IdleStream /\ IdleArray /\ IdleCall

\* getDictionaryOrStream: k := make( ... ); m := make( ... ); fi.nextToken()
getDictionary ==
    /\ dPc = "dict"
    /\ dFi' = fiNextToken(dBuffer, dFi)
    /\ dPc' = "entry"
    /\ UNCHANGED <<dInput, dBuffer, dKeys, dData, dPf, dOut>>
    /\ UNCHANGED <<parseVars, streamVars, arrayVars, callVars>>

\* one turn of the loop of getDictionaryOrStream; after `>>` the token `stream`
\* leads to getStreamBytes with the Length of the dictionary
getDictionaryLoop ==
    /\ dPc = "entry"
    /\ LET n == getName(dBuffer, dFi)
           r == getObjectDef(dBuffer, n.fi)
           e == fiNextToken(dBuffer, dFi)
       IN IF dFi.token = <<GT, GT>> /\ e.token = SubSeq(ENDSTREAM, 4, 9)   \* "stream"
          THEN IF KEY_LENGTH \notin DOMAIN dData
               THEN /\ dFi' = e
                    /\ dPc' = "error"
                    /\ UNCHANGED <<dKeys, dData>>
               ELSE IF dData[KEY_LENGTH].k # "num"           \* l := n.(pdfNumber)
               THEN /\ dFi' = e
                    /\ dPc' = "panic"
                    /\ UNCHANGED <<dKeys, dData>>
               ELSE \E fx \in BOOLEAN :
                      LET st == getStreamBytes(dBuffer, e.offset, dData[KEY_LENGTH].id,
                                               -1, fx, <<>>)
                      IN /\ dFi' = [e EXCEPT !.offset = st.offset]
                         /\ dPc' = IF st.res = "ok" THEN "stream"
                                   ELSE IF st.res = "panic" THEN "panic" ELSE "error"
                         /\ dData' = IF st.res = "ok" /\ Len(st.bytes) # dData[KEY_LENGTH].id
                                     THEN MapPut(dData, KEY_LENGTH, Number(Len(st.bytes)))
                                     ELSE dData
                         /\ UNCHANGED dKeys
          ELSE IF dFi.token = <<GT, GT>>
          THEN /\ dFi' = e
               /\ dPc' = "parsed"
               /\ UNCHANGED <<dKeys, dData>>
          ELSE IF dFi.token = <<>>
          THEN /\ dPc' = "panic"
               /\ UNCHANGED <<dFi, dKeys, dData>>
          ELSE IF dFi.token[1] # SLASH \/ n.res # "ok"
          THEN /\ dPc' = "error"
               /\ UNCHANGED <<dFi, dKeys, dData>>
          ELSE IF r.res = "ok"
          THEN /\ dFi' = r.fi
               /\ dKeys' = Append(dKeys, n.val.name)
               /\ dData' = MapPut(dData, n.val.name, r.val)
               /\ UNCHANGED dPc
          ELSE /\ dFi' = r.fi
               /\ dKeys' = Append(dKeys, n.val.name)
               /\ dPc' = IF r.res = "panic" THEN "panic" ELSE "error"
               /\ UNCHANGED dData
    /\ UNCHANGED <<dInput, dBuffer, dPf, dOut>>
    /\ UNCHANGED <<parseVars, streamVars, arrayVars, callVars>>

\* parseTrailer, from pf.Trailer = dic to the Root check
trailerFields ==
    /\ dPc = "parsed"
    /\ dInput.role = "trailer"
    /\ LET root == getRefFromTrailer(dData, KEY_ROOT)
       IN IF KEY_SIZE \notin DOMAIN dData
          THEN dPf' = [dPf EXCEPT !.res = "err"] /\ dPc' = "error"
          ELSE IF dData[KEY_SIZE].k # "num"          \* v.(pdfNumber)
          THEN dPf' = [dPf EXCEPT !.res = "panic"] /\ dPc' = "panic"
          ELSE IF root = NoEntry
          THEN /\ dPf' = [dPf EXCEPT !.res = "err", !.Size = dData[KEY_SIZE].id]
               /\ dPc' = "error"
          ELSE /\ dPf' = [res |-> "ok", Size |-> dData[KEY_SIZE].id, Catalog |-> root.id]
               /\ dPc' = "trailer"
    /\ UNCHANGED <<dInput, dBuffer, dFi, dKeys, dData, dOut>>
    /\ UNCHANGED <<parseVars, streamVars, arrayVars, callVars>>

\* serializeDictionary( f, keys, d )
serializeDictionary ==
    /\ dPc = "parsed"
    /\ dInput.role = "object"
    /\ LET w == serializeEntries(dKeys, dData)
       IN IF w.res = "panic"
          THEN dPc' = "panic" /\ UNCHANGED dOut
          ELSE /\ dOut' = <<LT, LT, LF>> \o w.out \o <<GT, GT>>
               /\ dPc' = "written"
    /\ UNCHANGED <<dInput, dBuffer, dFi, dKeys, dData, dPf>>
    /\ UNCHANGED <<parseVars, streamVars, arrayVars, callVars>>

NextDict ==
    \/ getDictionary
    \/ getDictionaryLoop
    \/ trailerFields
    \/ serializeDictionary

(***************************************************************************)
(* Decoders: checkASCIIHexDecode, checkASCII85Decode, checkRunLengthDecode *)
(* called on a byte string.  A result is [res, out] with res "ok", "err"   *)
(* (an error is returned) or "panic" (the run-time aborts the call).       *)
(***************************************************************************)
TILDE == 126                                \* '~'
LOWER_Z == 122                              \* 'z'
BANG == 33                                  \* '!'
LOWER_U == 117                              \* 'u'
EOD_RUN == 128                              \* the length byte that ends the runs
WhiteSpace == {0, 9, LF, 12, CR, SP}

\* n64 is kept as the base-85 digits of the group, so that no intermediate
\* value exceeds 31 bits: Hi is the number made of the first four digits
Hi(g) == ((g[1] * 85 + g[2]) * 85 + g[3]) * 85 + g[4]

\* n64 > 4294967295, for n64 = Hi( g ) * 85 + g[5]; 4294967295 = 85 * 50529027
TooBig(g) == Hi(g) > 50529027 \/ (Hi(g) = 50529027 /\ g[5] > 0)

\* byte( n64 >> 24 ), byte( (n64 >> 16) & 0xff ), byte( (n64 >> 8) & 0xff ),
\* byte( n64 & 0xff )
GroupBytes(g) ==
    LET l == (Hi(g) % 65536) * 85 + g[5]
        top == (Hi(g) \div 65536) * 85 + l \div 65536
        low == l % 65536
    IN <<(top \div 256) % 256, top % 256, low \div 256, low % 256>>

\* the decodeLoop of checkASCII85Decode; st = [g, out], gi = Len( g ),
\* dl = Len( out ); cap is len( output )
RECURSIVE a85Loop(_, _, _, _)
a85Loop(data, i, st, cap) ==
    IF i > Len(data) THEN [res |-> "end", offset |-> 0, st |-> st]
    ELSE LET v == data[i]
             g == Append(st.g, v - BANG)
         IN IF v = TILDE THEN [res |-> "eod", offset |-> i - 1, st |-> st]
            ELSE IF v \in WhiteSpace THEN a85Loop(data, i + 1, st, cap)
            ELSE IF v = LOWER_Z
            THEN (IF st.g # <<>> THEN [res |-> "err", offset |-> 0, st |-> st]
                  ELSE a85Loop(data, i + 1, [st EXCEPT !.out = @ \o <<0, 0, 0, 0>>], cap))
            ELSE IF v < BANG \/ v > LOWER_U THEN [res |-> "err", offset |-> 0, st |-> st]
            ELSE IF Len(st.g) = 4
            THEN (IF TooBig(g) THEN [res |-> "err", offset |-> 0, st |-> st]
                  ELSE IF Len(st.out) + 3 >= cap
                  THEN [res |-> "panic", offset |-> 0, st |-> st]
                  ELSE a85Loop(data, i + 1, [g |-> <<>>, out |-> st.out \o GroupBytes(g)], cap))
            ELSE a85Loop(data, i + 1, [st EXCEPT !.g = g], cap)

\* the last group padded with `u` to five characters
Padded(g) == g \o [j \in 1..(5 - Len(g)) |-> 84]

\* output[0:dl]
SliceOutput(res, out, cap) ==
    IF Len(out) > cap THEN [res |-> "panic", out |-> <<>>] ELSE [res |-> res, out |-> out]

\* a decoder without the case 'z': the character is beyond 'u' and rejected
rejectZ(data, verbose) ==
    IF \E i \in 1..Len(data) : data[i] = LOWER_Z
    THEN [res |-> "err", out |-> <<>>]
    ELSE [res |-> "ok", out |-> <<>>]

\* checkASCII85Decode( data, verbose, fix ): [res, out]
checkASCII85Decode(data, verbose) ==
    LET cap == 4 * (Len(data) - 2)
        r == a85Loop(data, 1, [g |-> <<>>, out |-> <<>>], cap)
        gi == Len(r.st.g)
        last == SubSeq(GroupBytes(Padded(r.st.g)), 1, gi - 1)
    IN IF cap < 0 THEN [res |-> "panic", out |-> <<>>]            \* make( []byte, < 0 )
       ELSE IF r.res = "panic" THEN [res |-> "panic", out |-> <<>>]
       ELSE IF r.res = "err" THEN SliceOutput("err", r.st.out, cap)
       ELSE IF Len(data) <= r.offset + 1                           \* data[offset+1]
       THEN [res |-> "panic", out |-> <<>>]
       ELSE IF data[r.offset + 2] # GT THEN SliceOutput("err", r.st.out, cap)
       ELSE IF ~verbose \/ gi = 0 THEN SliceOutput("ok", r.st.out, cap)
       ELSE IF gi = 1 THEN SliceOutput("err", r.st.out, cap)
       ELSE IF TooBig(Padded(r.st.g)) THEN SliceOutput("err", r.st.out, cap)
       ELSE IF Len(r.st.out) + gi - 1 > cap THEN [res |-> "panic", out |-> <<>>]
       ELSE SliceOutput("ok", r.st.out \o last, cap)

\* checkRunLengthDecode( data, verbose, fix ): the error, as "ok", "err" or "panic"
RECURSIVE checkRunLengthDecode(_, _)
checkRunLengthDecode(data, offset) ==
    IF offset > Len(data) - 1 THEN "err"
    ELSE LET rl == ByteAt(data, offset)
         IN IF rl < EOD_RUN
            THEN (IF offset + rl + 2 > Len(data) THEN "err"
                  ELSE checkRunLengthDecode(data, offset + rl + 2))
            ELSE IF rl = EOD_RUN THEN "ok"
            ELSE checkRunLengthDecode(data, offset + 2)

\* inputs of the decoders
HexAlphabet == {DATA[1], DIGIT0 + 1, SP, LOWER_Z, GT}
HexInputs == UNION { [1..n -> HexAlphabet] : n \in 0..MaxHexLen }
A85Alphabet == {LOWER_Z, 57, 106, 113, 111}             \* z 9 j q o
A85Tails == {<<TILDE, GT>>, <<TILDE>>, <<>>}
A85Inputs ==
    { body \o tail : body \in UNION { [1..n -> A85Alphabet] : n \in 0..MaxA85Len },
                     tail \in A85Tails }

InitHex ==
    /\ cArgs \in { [fn |-> "checkASCIIHexDecode", data |-> d, verbose |-> v] :
                     d \in HexInputs, v \in BOOLEAN }
    /\ cResult = <<>>
    /\ cPc = "call"
    /\ IdleParse /\ IdleStream /\ IdleArray /\ IdleDict

\* output, err := checkASCIIHexDecode( data, verbose, fix )
callASCIIHexDecode ==
    /\ cPc = "call"
    /\ cArgs.fn = "checkASCIIHexDecode"
    /\ cResult' = checkASCIIHexDecode(cArgs.data)
    /\ cPc' = "returned"
    /\ UNCHANGED cArgs
    /\ UNCHANGED <<parseVars, streamVars, arrayVars, dictVars>>

NextHex ==
    \/ callASCIIHexDecode

InitA85 ==
    /\ cArgs \in { [fn |-> "checkASCII85Decode", data |-> d, verbose |-> v] :
                     d \in A85Inputs, v \in BOOLEAN }
    /\ cResult = <<>>
    /\ cPc = "call"
    /\ IdleParse /\ IdleStream /\ IdleArray /\ IdleDict

\* output, err := checkASCII85Decode( data, verbose, fix )
callASCII85Decode ==
    /\ cPc = "call"
    /\ cArgs.fn = "checkASCII85Decode"
    /\ cResult' = checkASCII85Decode(cArgs.data, cArgs.verbose)
    /\ cPc' = "returned"
    /\ UNCHANGED cArgs
    /\ UNCHANGED <<parseVars, streamVars, arrayVars, dictVars>>

NextA85 ==
    \/ callASCII85Decode

(***************************************************************************)
(* The first line: readFirstLine / parseHeader on the first bytes of the   *)
(* file.  Version is the text Sprintf( "1.%d", minor ) produces.           *)
(***************************************************************************)
PDF_MAGIC == <<37, 80, 68, 70, 45, 49, 46>>         \* "%PDF-1."
HIGH_BYTE == 128                                    \* 0x80
BINARY_COMMENT == <<PERCENT, 246, 228, 252, 223, LF>>

\* skipToEOL( buffer, offset )
RECURSIVE skipToEOL(_, _)
skipToEOL(buffer, offset) ==
    IF offset >= Len(buffer) THEN offset + 1
    ELSE IF ByteAt(buffer, offset) = CR
    THEN (IF offset + 1 = Len(buffer) THEN offset + 1
          ELSE IF ByteAt(buffer, offset + 1) # LF THEN offset + 1
          ELSE offset + 2)
    ELSE IF ByteAt(buffer, offset) = LF THEN offset + 1
    ELSE skipToEOL(buffer, offset + 1)

\* fi.readFirstLine(): [res, Header, offset]
readFirstLine(bytes) ==
    LET buffer == SubSeq(bytes, 1, Min({Len(bytes), FIRST_READ}))
        end == Len(buffer)
        no == [res |-> "err", Header |-> <<>>, offset |-> 0]
        i == IF ByteAt(buffer, 8) = CR /\ end # 9 /\ ByteAt(buffer, 9) = LF
             THEN 10 ELSE 9
        missing == \/ ByteAt(buffer, i) # PERCENT
                   \/ \E j \in 1..4 : ByteAt(buffer, i + j) < HIGH_BYTE
    IN IF end < 9 \/ SubSeq(buffer, 1, 7) # PDF_MAGIC THEN no
       ELSE IF ByteAt(buffer, 8) \notin {CR, LF} THEN no
       ELSE IF i >= end - 5 THEN no
       ELSE [res |-> "ok", Header |-> SubSeq(buffer, 1, 8),
             offset |-> IF missing THEN i ELSE skipToEOL(buffer, i + 5)]

\* the decimal digits of n, as Sprintf( "%d", n ) writes them
RECURSIVE Decimal(_)
Decimal(n) == IF n < 10 THEN Digit(n) ELSE Decimal(n \div 10) \o Digit(n % 10)

\* the first bytes of a file: "%PDF-M.N", an end of line, the binary comment
\* or not, and some content
HeaderInputs ==
    { <<PERCENT, 80, 68, 70, 45, major, 46, n>> \o eol \o cmt \o [j \in 1..len |-> DATA[1]] :
        major \in {DIGIT0 + 1, DIGIT0 + 2},
        n \in {DIGIT0, DIGIT0 + 4, DIGIT0 + 7, DIGIT0 + 8, DIGIT9, LOWER_Z, SLASH},
        eol \in {<<LF>>, <<CR>>, <<CR, LF>>, <<SP>>},
        cmt \in {<<>>, BINARY_COMMENT},
        len \in 0..MaxContent }
    \cup {<<>>, PDF_MAGIC}

InitHeader ==
    /\ cArgs \in { [fn |-> "parseHeader", data |-> d, verbose |-> FALSE] : d \in HeaderInputs }
    /\ cResult = <<>>
    /\ cPc = "call"
    /\ IdleParse /\ IdleStream /\ IdleArray /\ IdleDict

\* err := pf.parseHeader( fi ): [res, Header, Version, offset]
callParseHeader ==
    /\ cPc = "call"
    /\ cArgs.fn = "parseHeader"
    /\ LET r == readFirstLine(cArgs.data)
           minor == (r.Header[8] + 256 - DIGIT0) % 256
       IN cResult' = IF r.res # "ok"
                     THEN [res |-> "err", Header |-> <<>>, Version |-> <<>>, offset |-> 0]
                     ELSE [res |-> "ok", Header |-> r.Header,
                           Version |-> <<DIGIT0 + 1, 46>> \o Decimal(minor),
                           offset |-> r.offset]
    /\ cPc' = "returned"
    /\ UNCHANGED cArgs
    /\ UNCHANGED <<parseVars, streamVars, arrayVars, dictVars>>

NextHeader ==
    \/ callParseHeader

(***************************************************************************)
(* Names and hex strings: getName on a token, getHexString on the bytes    *)
(* that follow the token `<`.                                              *)
(***************************************************************************)
\* name tokens: `/` and up to MaxNameLen of # 0 1 2 F G
NameInputs ==
    { <<SLASH>> \o t :
        t \in UNION { [1..n -> {HASH, DIGIT0, DIGIT0 + 1, DIGIT0 + 2, 70, 71}] :
                        n \in 0..MaxNameLen } }

InitName ==
    /\ cArgs \in { [fn |-> "getName", data |-> d, verbose |-> FALSE] : d \in NameInputs }
    /\ cResult = <<>>
    /\ cPc = "call"
    /\ IdleParse /\ IdleStream /\ IdleArray /\ IdleDict

\* pName, err := getName( fi ), fi.token being the name token: [res, name]
callGetName ==
    /\ cPc = "call"
    /\ cArgs.fn = "getName"
    /\ LET r == getName(cArgs.data, [NoToken EXCEPT !.token = cArgs.data])
       IN cResult' = [res |-> r.res, name |-> r.val.name]
    /\ cPc' = "returned"
    /\ UNCHANGED cArgs
    /\ UNCHANGED <<parseVars, streamVars, arrayVars, dictVars>>

NextName ==
    \/ callGetName

\* getHexString( fi ) from fi.buffer[i] on: [res, out]; n is the count of
\* digits met, nibble the first digit of the pair, out the bytes written; the
\* buffer ends where the file ends, so that refill returns io.EOF
RECURSIVE getHexString(_, _, _, _, _)
getHexString(buf, i, n, nibble, out) ==
    IF i >= Len(buf) THEN [res |-> "err", out |-> <<>>]
    ELSE LET c == ByteAt(buf, i)
             lower == makeNibbleFromHexChar(c)
         IN IF c \in {CR, LF, 0, 9, 12, SP} THEN getHexString(buf, i + 1, n, nibble, out)
            ELSE IF c = GT
            THEN [res |-> "ok",
                  out |-> IF n % 2 = 1 THEN Append(out, (nibble * 16) % 256) ELSE out]
            ELSE IF n % 2 = 0
            THEN (IF lower = 255 THEN [res |-> "err", out |-> <<>>]
                  ELSE getHexString(buf, i + 1, n + 1, lower, out))
            ELSE IF nibble = 255 THEN [res |-> "err", out |-> <<>>]
            ELSE getHexString(buf, i + 1, n + 1, nibble,
                              Append(out, (nibble * 16 + lower) % 256))

\* what follows `<`: up to MaxHexStr of 4 a G, a space and `>`
HexStringInputs ==
    UNION { [1..n -> {DIGIT0 + 4, DATA[1], 71, SP, GT}] : n \in 0..MaxHexStr }

InitHexString ==
    /\ cArgs \in { [fn |-> "getHexString", data |-> d, verbose |-> FALSE] :
                     d \in HexStringInputs }
    /\ cResult = <<>>
    /\ cPc = "call"
    /\ IdleParse /\ IdleStream /\ IdleArray /\ IdleDict

\* s, err := getHexString( fi ), fi.offset being after the token `<`
callGetHexString ==
    /\ cPc = "call"
    /\ cArgs.fn = "getHexString"
    /\ cResult' = getHexString(cArgs.data, 0, 0, 0, <<>>)
    /\ cPc' = "returned"
    /\ UNCHANGED cArgs
    /\ UNCHANGED <<parseVars, streamVars, arrayVars, dictVars>>

NextHexString ==
    \/ callGetHexString

(***************************************************************************)
(* The buffered input: fi.buffer holds the bytes of the file from bStart   *)
(* on, at most BufSize of them (INPUT_BUFFER_SIZE scaled down); fd is the  *)
(* position of the file descriptor; refill moves the unread bytes to the   *)
(* head of the buffer and reads on, up to stopAt.                          *)
(***************************************************************************)
\* fi.refill(): [res, fi]; res is "ok" for nil, "eof" for io.EOF, "panic" when
\* a slice expression has a negative bound
refill(bytes, f) ==
    LET remaining == Len(f.buffer) - f.offset
        end == Min({f.stopAt - f.bStart - f.offset, Len(f.buffer)})
        n == IF end > remaining THEN Min({end - remaining, Len(bytes) - f.fd}) ELSE 0
        kept == IF remaining > 0 THEN Slice(f.buffer, f.offset, Len(f.buffer)) ELSE <<>>
    IN IF (end > remaining /\ remaining < 0) \/ remaining + n < 0
       THEN [res |-> "panic", fi |-> f]
       ELSE [res |-> IF n = 0 THEN "eof" ELSE "ok",
             fi |-> [f EXCEPT !.buffer = kept \o Slice(bytes, f.fd, f.fd + n),
                              !.bStart = @ + f.offset, !.offset = 0, !.fd = @ + n]]

\* fi.skipSpaces( false ) with its refills: [res, fi]
RECURSIVE skipSpacesRefill(_, _, _)
skipSpacesRefill(bytes, f, inComment) ==
    LET i == IF f.offset >= Len(f.buffer) THEN f.offset
             ELSE skipSpaces(f.buffer, f.offset, FALSE, inComment)
        seen == Slice(f.buffer, Min({f.offset, Len(f.buffer)}), Len(f.buffer))
        eols == { k \in 1..Len(seen) : seen[k] \in {LF, CR} }
        still == IF eols = {} THEN inComment \/ \E k \in 1..Len(seen) : seen[k] = PERCENT
                 ELSE \E k \in (Max(eols) + 1)..Len(seen) : seen[k] = PERCENT
        r == refill(bytes, [f EXCEPT !.offset = i])
    IN IF i < Len(f.buffer) THEN [res |-> "ok", fi |-> [f EXCEPT !.offset = i]]
       ELSE IF r.res = "ok" THEN skipSpacesRefill(bytes, r.fi, still)
       ELSE r

\* the token loop of fi.nextToken() with its refills, from buffer[i] on
RECURSIVE nextTokenLoop(_, _, _, _)
nextTokenLoop(bytes, f, i, sb) ==
    LET t == scanToken(f.buffer, i, sb)
        r == refill(bytes, f)
    IN IF ~t.end THEN [res |-> "ok", fi |-> [f EXCEPT !.token = t.token, !.offset = t.offset]]
       ELSE IF r.res = "panic" THEN r
       ELSE IF r.res = "eof"
       THEN [res |-> "ok", fi |-> [r.fi EXCEPT !.offset = t.offset,
                                               !.token = t.token]]
       ELSE nextTokenLoop(bytes,
                          [r.fi EXCEPT !.savedOffset = IF @ # -1 THEN 0 ELSE -1],
                          Len(t.token), t.token)

\* fi.nextToken() on the buffered input: [res, fi]
nextTokenRefill(bytes, f) ==
    LET s == skipSpacesRefill(bytes, f, FALSE)
        g == [s.fi EXCEPT !.savedOffset = IF @ # -1 THEN s.fi.offset ELSE -1,
                          !.tokFilePos = s.fi.bStart + s.fi.offset]
    IN IF s.res = "panic" THEN s
       ELSE IF g.tokFilePos >= g.stopAt THEN [res |-> "ok", fi |-> [g EXCEPT !.token = <<>>]]
       ELSE nextTokenLoop(bytes, g, g.offset, <<>>)

\* the files read: up to MaxFileLen of a, space, % and line feed
FileBytes ==
    UNION { [1..n -> {DATA[1], SP, PERCENT, LF}] : n \in 1..MaxFileLen }

\* the input after newFileInput and fillBuffer( size, 0 ), size the file's
InitLook ==
    /\ cArgs \in { [fn |-> "lookAhead", data |-> d, verbose |-> FALSE] : d \in FileBytes }
    /\ cResult = [fi |-> [bStart |-> 0, stopAt |-> Len(cArgs.data),
                          buffer |-> Slice(cArgs.data, 0, Min({Len(cArgs.data), BufSize})),
                          offset |-> 0, fd |-> Min({Len(cArgs.data), BufSize}),
                          token |-> <<>>, tokFilePos |-> 0,
                          savedToken |-> <<>>, savedOffset |-> -1, savedPos |-> 0],
                  was |-> [token |-> <<>>, pos |-> -1],
                  look |-> [token |-> <<>>, pos |-> -1]]
    /\ cPc = "call"
    /\ IdleParse /\ IdleStream /\ IdleArray /\ IdleDict

\* fi.nextToken(): before the look-ahead, as the look-ahead, and after it
lookNextToken ==
    /\ cArgs.fn = "lookAhead"
    /\ cPc \in {"call", "saved", "restored"}
    /\ LET r == nextTokenRefill(cArgs.data, cResult.fi)
       IN IF r.res = "panic"
          THEN /\ cPc' = IF cPc = "call" THEN "abort" ELSE "panic"
               /\ UNCHANGED cResult
          ELSE /\ cPc' = IF cPc = "call" THEN "call"
                         ELSE IF cPc = "saved" THEN "looked" ELSE "returned"
               /\ cResult' = [cResult EXCEPT
                                !.fi = r.fi,
                                !.look = IF cPc = "saved"
                                         THEN [token |-> r.fi.token, pos |-> r.fi.tokFilePos]
                                         ELSE @]
    /\ UNCHANGED cArgs
    /\ UNCHANGED <<parseVars, streamVars, arrayVars, dictVars>>

\* fi.saveCurrentToken(), a token being current
lookSave ==
    /\ cArgs.fn = "lookAhead"
    /\ cPc = "call"
    /\ cResult.fi.token # <<>>
    /\ cResult' = [cResult EXCEPT !.fi = saveCurrentToken(@),
                                  !.was = [token |-> cResult.fi.token,
                                           pos |-> cResult.fi.tokFilePos]]
    /\ cPc' = "saved"
    /\ UNCHANGED cArgs
    /\ UNCHANGED <<parseVars, streamVars, arrayVars, dictVars>>

\* fi.restoreCurrentToken()
lookRestore ==
    /\ cArgs.fn = "lookAhead"
    /\ cPc = "looked"
    /\ cResult' = [cResult EXCEPT !.fi = restoreCurrentToken(@)]
    /\ cPc' = "restored"
    /\ UNCHANGED cArgs
    /\ UNCHANGED <<parseVars, streamVars, arrayVars, dictVars>>

NextLook ==
    \/ lookNextToken
    \/ lookSave
    \/ lookRestore

\* fi.fillBuffer( size, fl ) on the buffered input: [res, fi]; a zero size
\* returns before anything is changed
fillBufferBytes(bytes, f, size, fl) ==
    LET n == Max({0, Min({size, BufSize, Len(bytes) - fl})})
    IN IF size = 0 THEN [res |-> "ok", fi |-> f]
       ELSE IF fl < 0 THEN [res |-> "err", fi |-> f]                    \* Seek fails
       ELSE IF size < 0 THEN [res |-> "panic", fi |-> f]                \* buffer[0:size]
       ELSE [res |-> "ok",
             fi |-> [f EXCEPT !.bStart = fl, !.stopAt = fl + size,
                              !.buffer = Slice(bytes, fl, fl + n),
                              !.offset = 0, !.fd = fl + n]]

\* fi.skipInBufferTo( offset ): [res, fi]
skipInBufferTo(bytes, f, offset) ==
    IF offset > f.stopAt THEN [res |-> "panic", fi |-> f]
    ELSE IF offset - f.bStart >= Len(f.buffer)
    THEN fillBufferBytes(bytes, f, f.stopAt - offset, offset)
    ELSE [res |-> "ok", fi |-> [f EXCEPT !.offset = offset - f.bStart]]

\* the input after fillBuffer( size, fl ) and some reading inside the buffer
InitSeek ==
    /\ cArgs \in { [fn |-> "skipInBufferTo", data |-> d, verbose |-> FALSE] : d \in FileBytes }
    /\ \E fl \in 0..1, size \in 1..(MaxFileLen + 1), off \in 0..BufSize :
          LET f == fillBufferBytes(cArgs.data,
                                   [bStart |-> 0, stopAt |-> 0, buffer |-> <<>>,
                                    offset |-> 0, fd |-> 0], size, fl).fi
          IN /\ fl + size <= Len(cArgs.data) + 1
             /\ off <= Len(f.buffer)
             /\ cResult = [res |-> "none", fi |-> [f EXCEPT !.offset = off],
                           p |-> -1, stopAt |-> f.stopAt]
    /\ cPc = "call"
    /\ IdleParse /\ IdleStream /\ IdleArray /\ IdleDict

\* fi.skipInBufferTo( p ) for a target of the current range
callSkipInBufferTo ==
    /\ cPc = "call"
    /\ cArgs.fn = "skipInBufferTo"
    /\ \E p \in cResult.fi.bStart..cResult.fi.stopAt :
          LET r == skipInBufferTo(cArgs.data, cResult.fi, p)
          IN cResult' = [cResult EXCEPT !.res = r.res, !.fi = r.fi, !.p = p]
    /\ cPc' = "returned"
    /\ UNCHANGED cArgs
    /\ UNCHANGED <<parseVars, streamVars, arrayVars, dictVars>>

NextSeek ==
    \/ callSkipInBufferTo

(***************************************************************************)
(* Numbers: serializeNumber.  A float64 is held as the digits of its       *)
(* shortest decimal form (the first and the last are not 0), the position  *)
(* pt of the decimal point after the first pt digits, and its sign.        *)
(***************************************************************************)
\* fmt.Sprintf( "%g", n ): the exponent form d.ddde+XX when the exponent
\* X = pt - 1 is below -4 or at least 6, else the plain form
Sprintf_g(neg, ds, pt) ==
    LET X == pt - 1
        abs == IF X < 0 THEN -X ELSE X
        digs == [k \in 1..Len(ds) |-> DIGIT0 + ds[k]]
        zeros(n) == [k \in 1..n |-> DIGIT0]
        sgn == IF neg THEN <<MINUS>> ELSE <<>>
    IN IF X < -4 \/ X >= 6
       THEN sgn \o <<digs[1]>> \o (IF Len(ds) > 1 THEN <<DOT>> \o Tail(digs) ELSE <<>>)
            \o <<LOWER_E, IF X < 0 THEN MINUS ELSE PLUS,
                 DIGIT0 + (abs \div 10), DIGIT0 + (abs % 10)>>
       ELSE IF pt <= 0 THEN sgn \o <<DIGIT0, DOT>> \o zeros(-pt) \o digs
       ELSE IF pt >= Len(ds) THEN sgn \o digs \o zeros(pt - Len(ds))
       ELSE sgn \o SubSeq(digs, 1, pt) \o <<DOT>> \o SubSeq(digs, pt + 1, Len(ds))

\* serializeNumber( f, n ) from res := fmt.Sprintf( "%g", n ) on: [res, out],
\* out being what is written to f
serializeNumber(res) ==
    LET end == Index(res, <<LOWER_E>>)
        start == IF ByteAt(res, 0) = MINUS THEN 1 ELSE 0
        mag == DecValue(Slice(res, end + 2, Len(res)))
        exp == IF ByteAt(res, end + 1) = MINUS THEN -mag ELSE mag      \* strconv.Atoi
        pt == IF ByteAt(res, start + 1) # DOT THEN 0 ELSE 1
        ml == IF pt = 0 THEN end - start ELSE end - start - 1
        nZ == IF exp > 0 THEN exp - ml + 1 ELSE -exp
        dp == IF exp > 0 /\ (pt = 1 \/ exp >= ml - 1) THEN 0 ELSE 1
        size == start + dp + ml + nZ                                   \* len( fRes )
        sgn == IF start > 0 THEN <<MINUS>> ELSE <<>>
    IN IF end = -1 THEN [res |-> "ok", out |-> res]
       ELSE IF size < 0 THEN [res |-> "panic", out |-> <<>>]
       ELSE IF exp < 0
       THEN [res |-> "ok",
             out |-> sgn \o <<DIGIT0, DOT>> \o [k \in 1..(-exp - 1) |-> DIGIT0]
                     \o <<ByteAt(res, start)>>
                     \o [i \in 1..(ml - 1) |-> ByteAt(res, start + 1 + i)]]
       ELSE IF dp # 0 THEN [res |-> "panic", out |-> <<>>]             \* "Unexpected %g case"
       ELSE IF ml > 1 /\ start + ml - 1 >= size                        \* fRes[start+i]
       THEN [res |-> "panic", out |-> <<>>]
       ELSE [res |-> "ok",
             out |-> sgn \o <<ByteAt(res, start)>>
                     \o [i \in 1..(ml - 1) |-> ByteAt(res, start + pt + i)]
                     \o [k \in 1..nZ |-> DIGIT0]]

\* the numbers written: up to MaxDigits digits 1 and 5, the decimal point from
\* MaxExp places before the first digit to MaxExp places after it
InitNumber ==
    /\ cArgs \in { [fn |-> "serializeNumber", data |-> d, verbose |-> FALSE, neg |-> s,
                    pt |-> e] :
                     d \in UNION { [1..n -> {1, 5}] : n \in 1..MaxDigits },
                     s \in BOOLEAN, e \in (1 - MaxExp)..(1 + MaxExp) }
    /\ cResult = <<>>
    /\ cPc = "call"
    /\ IdleParse /\ IdleStream /\ IdleArray /\ IdleDict

\* serializeNumber( f, float64( v ) )
callSerializeNumber ==
    /\ cPc = "call"
    /\ cArgs.fn = "serializeNumber"
    /\ cResult' = serializeNumber(Sprintf_g(cArgs.neg, cArgs.data, cArgs.pt))
    /\ cPc' = "returned"
    /\ UNCHANGED cArgs
    /\ UNCHANGED <<parseVars, streamVars, arrayVars, dictVars>>

NextNumber ==
    \/ callSerializeNumber

(***************************************************************************)
(* Specifications: one per machine                                         *)
(***************************************************************************)
SpecParse == InitParse /\ [][NextParse]_vars

SpecStream == InitStream /\ [][NextStream]_vars

SpecArray == InitArray /\ [][NextArray]_vars

SpecDict == InitDict /\ [][NextDict]_vars

SpecHex == InitHex /\ [][NextHex]_vars

SpecA85 == InitA85 /\ [][NextA85]_vars

SpecHeader == InitHeader /\ [][NextHeader]_vars

SpecName == InitName /\ [][NextName]_vars

SpecHexString == InitHexString /\ [][NextHexString]_vars

SpecLook == InitLook /\ [][NextLook]_vars

SpecSeek == InitSeek /\ [][NextSeek]_vars

SpecNumber == InitNumber /\ [][NextNumber]_vars

(***************************************************************************)
(* Properties of Parse and Serialize (SpecParse)                           *)
(***************************************************************************)
ParseEnded == pc \in {"returned", "panic"}
ParseOk == pc = "returned" /\ ret.pf = "pf" /\ ret.err = "nil"

\* C1: after Parse succeeds on a well-formed file with incremental updates, for
\* every id listed in use by more than one XREF section ObjById[id] is the entry
\* of the newest section listing it, with the value of the newest update body.
C1_LatestUpdateWins ==
    LET \* indices in file.slots of the XREF sections, oldest first
        xrefs == SortedSeq({ k \in 1..Len(file.slots) : file.slots[k].kind = "xref" })
        InUse(x) == { x.subs[1].first + k - 1 :
                        k \in { j \in 1..Len(x.subs[1].ents) : x.subs[1].ents[j].use = "n" } }
        Listing(id) == { s \in 1..Len(xrefs) : id \in InUse(file.slots[xrefs[s]]) }
        Newest(id) == LET x == file.slots[xrefs[Max(Listing(id))]]
                      IN x.subs[1].ents[id - x.subs[1].first + 1]
    IN (ParseOk /\ phase = 1 /\ file.defect = "none" /\ file.nSec >= 2) =>
          \A id \in 1..MaxId :
              Cardinality(Listing(id)) >= 2 =>
                  /\ pf.ObjById[id] # 0
                  /\ heap[pf.ObjById[id]].gen = Newest(id).gen
                  /\ heap[pf.ObjById[id]].value = SlotAt(file, Newest(id).off).val

\* C2: for every well-formed file Parse accepts, Serialize completes and Parse of
\* the file it wrote succeeds with the same objects in the same order.
C2_RoundTrip ==
    (file.defect = "none") =>
        /\ pc # "serpanic"
        /\ (phase = 2 /\ ParseEnded) => (ParseOk /\ Result.Objects = first.Objects)

\* C3: Parse never returns a partial result: whatever stage fails, what is
\* returned is either a PdfFile and no error, or no PdfFile and an error.
C3_NoPartialResult ==
    /\ pc = "returned" =>
          \/ ret.pf = "pf" /\ ret.err = "nil" /\ failedAt = "none"
          \/ ret.pf = "nil" /\ ret.err = "err" /\ failedAt # "none"
    /\ pc \in {"header", "hunt", "xref", "trailer", "mainbody", "walk", "panic"} =>
          (ret.pf = "none" /\ ret.err = "none" /\ failedAt = "none")

\* C3 witness: the main body walk fails after objects were already attached to
\* the PdfFile under construction, and Parse returns no PdfFile.
C3_Witness ==
    /\ pc = "returned" /\ ret.pf = "nil" /\ ret.err = "err"
    /\ failedAt = "main body" /\ Len(pf.Objects) > 0

\* C4: after a successful Parse of a well-formed file, with or without
\* incremental updates, Objects is in strictly increasing offset order.
C4_OffsetMonotonicity ==
    (ParseOk /\ file.defect = "none") =>
        \A i \in 1..(Len(pf.Objects) - 1) :
            heap[pf.Objects[i]].start < heap[pf.Objects[i + 1]].start

\* C8: Parse succeeds on a well-formed file of two objects, one XREF and one
\* trailer, with version 1.4, size 3 and 2 objects, whatever the file size.
C8_MinimalFile ==
    LET minimal == /\ file.defect = "none" /\ file.nSec = 1 /\ file.minor = 52
                   /\ Len(file.slots) = 4
                   /\ file.slots[2].id = 1 /\ file.slots[3].id = 2
    IN (phase = 1 /\ minimal /\ ParseEnded) =>
          (ParseOk /\ pf.Version = 4 /\ pf.Size = 3 /\ Len(pf.Objects) = 2)

\* C10: for every PdfFile Parse returns, Serialize completes and its XREF has,
\* for each object of Objects, one in-use entry at the index of the object's id
\* with the offset the object was written at and the object's generation.
C10_ConsolidatedXref ==
    /\ pc # "serpanic"
    /\ pc = "serialized" =>
          LET ents == outFile.slots[Len(outFile.slots)].subs[1].ents
          IN \A j \in 1..Len(pf.Objects) :
                LET o == heap[pf.Objects[j]]
                IN /\ o.id + 1 <= Len(ents)
                   /\ ents[o.id + 1].use = "n"
                   /\ ents[o.id + 1].off = j * outFile.slotW
                   /\ ents[o.id + 1].gen = o.gen

(***************************************************************************)
(* Properties of stream parsing and checking (SpecStream)                  *)
(***************************************************************************)
\* where the stream data start, after the end of line of the `stream` keyword
StreamStart == skipCurrentEOL(sBuffer, 0)
\* the dictionary's Length as getStreamBytes receives it
Declared == ToInt(sDeclared)

\* C5: after a successful Parse, and after a successful Check in fix mode, the
\* Length entry of a stream's dictionary equals the number of its data bytes.
C5_LengthFidelity ==
    (sValue.kind = "stream" /\ (sPc = "parsed" \/ (sPc = "checked" /\ sCheckFix))) =>
        sValue.Length = ToNumber(Len(sValue.data))

\* C6: in fix mode, when `endstream` is not at streamStart+Length the data are
\* the bytes up to the first `endstream` of the body and Length is their count.
C6_FixRecovery ==
    LET At(p) == /\ p + Len(ENDSTREAM) <= Len(sBuffer)
                 /\ Slice(sBuffer, p, p + Len(ENDSTREAM)) = ENDSTREAM
        p0 == StreamStart + Declared
        located == \/ At(p0)
                   \/ p0 < Len(sBuffer) /\ ByteAt(sBuffer, p0) = LF /\ At(p0 + 1)
                   \/ /\ p0 + 1 < Len(sBuffer)
                      /\ ByteAt(sBuffer, p0) = CR /\ ByteAt(sBuffer, p0 + 1) = LF
                      /\ At(p0 + 2)
        \* offset from the stream start of the first `endstream` of the body
        firstAt == Index(Slice(sBuffer, StreamStart, Len(sBuffer)), ENDSTREAM)
    IN (sPc = "parsed" /\ sFix /\ StreamStart # -1 /\ firstAt # -1 /\ ~located) =>
          /\ sValue.kind = "stream"
          /\ sValue.data = Slice(sBuffer, StreamStart, StreamStart + firstAt)
          /\ sValue.Length = ToNumber(firstAt)

\* C7: in strict mode a stream is accepted only if `endstream` is at
\* streamStart+Length (after an optional LF or CRLF); otherwise an error is
\* returned, and the process never aborts.
C7_StrictLength ==
    LET At(p) == /\ p + Len(ENDSTREAM) <= Len(sBuffer)
                 /\ Slice(sBuffer, p, p + Len(ENDSTREAM)) = ENDSTREAM
        p0 == StreamStart + Declared
        accepted == /\ StreamStart # -1
                    /\ \/ At(p0)
                       \/ p0 < Len(sBuffer) /\ ByteAt(sBuffer, p0) = LF /\ At(p0 + 1)
                       \/ /\ p0 + 1 < Len(sBuffer)
                          /\ ByteAt(sBuffer, p0) = CR /\ ByteAt(sBuffer, p0 + 1) = LF
                          /\ At(p0 + 2)
    IN (sPc = "parsed" /\ ~sFix) =>
          /\ sValue.kind = "stream" => accepted
          /\ sValue.kind # "stream" => sValue.kind = "err"

(***************************************************************************)
(* Properties of arrays of numbers and references (SpecArray)              *)
(***************************************************************************)
\* C9: in an array holding a positive integer, an integer followed by an
\* integer and R yields one Reference, any other integer one Number, and no
\* token is lost, duplicated or reordered: the array read is the array written.
C9_IntegerOrReference ==
    LET integers == { j \in 1..Len(aInput.elems) : aInput.elems[j].k \in {"num", "ref"} }
    IN (aPc \in {"done", "error", "panic"} /\ integers # {}) =>
          (aPc = "done" /\ aArray = aInput.elems)


(***************************************************************************)
(* Object lifecycle (SpecParse)                                            *)
(***************************************************************************)
\* C11: after Parse no object occurs twice in Objects, as a pointer or as an
\* id, even when a body repeats an `id gen obj` header.
C11_ObjectLifecycle ==
    (ParseOk /\ phase = 1 /\ file.nSec = 1) =>
        \A i, j \in 1..Len(pf.Objects) :
            i < j => /\ pf.Objects[i] # pf.Objects[j]
                     /\ heap[pf.Objects[i]].id # heap[pf.Objects[j]].id

(***************************************************************************)
(* Dictionaries (SpecDict)                                                 *)
(***************************************************************************)
\* C12: a dictionary parsed from keys k1..kn is written by serializeDictionary
\* as exactly the entries /k1 .. /kn in that order, each with the value
\* parsed for that key.
C12_KeyOrderPreservation ==
    dPc = "written" =>
        dOut = <<LT, LT, LF>>
               \o Flatten([j \in 1..Len(dInput.entries) |->
                      <<SLASH>> \o dInput.entries[j].key \o <<SP>>
                      \o serializeValue(dInput.entries[j].val) \o <<LF>>])
               \o <<GT, GT>>

\* C13: after the trailer is parsed, Trailer.keys holds each key of
\* Trailer.data exactly once and nothing else, also when the trailer repeats
\* a key.
C13_TrailerKeys ==
    dPc = "trailer" =>
        /\ { dKeys[j] : j \in 1..Len(dKeys) } = DOMAIN dData
        /\ \A i, j \in 1..Len(dKeys) : i # j => dKeys[i] # dKeys[j]

(***************************************************************************)
(* Trailer and XREF subsections (SpecParse)                                *)
(***************************************************************************)
\* C14: after every successful Parse Catalog.id is not 0; a trailer whose
\* Root is missing or references object 0 never yields a PdfFile.
C14_CatalogNotZero ==
    (ParseOk /\ phase = 1) => pf.Catalog # 0

(***************************************************************************)
(* Filters and decoders (SpecStream, SpecHex, SpecA85)                     *)
(***************************************************************************)
\* C15: Check runs the decoder of every supported filter of a stream, so a
\* stream with Filter ASCII85Decode or RunLengthDecode whose data is malformed
\* for that decoder never passes Check without an error.
C15_FilterDispatch ==
    (sPc = "checked" /\ sValue.kind = "stream") =>
        /\ sValue.Filter = "ASCII85Decode" =>
               checkASCII85Decode(sValue.data, FALSE).res # "err"
        /\ sValue.Filter = "RunLengthDecode" =>
               checkRunLengthDecode(sValue.data, 0) # "err"

\* C16: for n hex digits interleaved with white space before the first `>`,
\* checkASCIIHexDecode returns exactly ceil(n/2) bytes: byte i is
\* (digit[2i] << 4) + digit[2i+1], an odd last digit is padded with 0, and for
\* even n no extra byte is appended.
C16_ASCIIHexResult ==
    LET data == cArgs.data
        ends == { i \in 1..Len(data) : data[i] = GT }
        before == IF ends = {} THEN data ELSE SubSeq(data, 1, Min(ends) - 1)
        IsSpace(b) == b \in {0, 9, LF, 12, CR, SP}
        IsKept(b) == ~IsSpace(b)
        digits == SelectSeq(before, IsKept)
        n == Len(digits)
        nib(j) == makeNibbleFromHexChar(digits[j])
        expected == [i \in 1..((n + 1) \div 2) |->
                        IF 2 * i <= n THEN nib(2 * i - 1) * 16 + nib(2 * i)
                        ELSE nib(2 * i - 1) * 16]
    IN (/\ cPc = "returned"
        /\ cArgs.fn = "checkASCIIHexDecode"
        /\ \A j \in 1..n : nib(j) # 255)
       => cResult = [err |-> FALSE, out |-> expected]

\* C17: checkASCII85Decode returns the same bytes and the same error outcome
\* for verbose = true and verbose = false; a last group of k in {2,3,4}
\* characters before `~>` gives k-1 bytes and a last group of 1 character is
\* an error.
C17_ASCII85FinalGroup ==
    (cPc = "returned" /\ cArgs.fn = "checkASCII85Decode") =>
        cResult = checkASCII85Decode(cArgs.data, ~cArgs.verbose)

\* C18: `z~>` decodes to exactly four zero bytes, and `z9jqo~>`, where the z
\* stands at a group boundary, is accepted: no error is returned and the
\* output starts with the four zero bytes of the z.
C18_ZAtGroupBoundary ==
    (cPc = "returned" /\ cArgs.fn = "checkASCII85Decode") =>
        /\ cArgs.data = <<LOWER_Z, TILDE, GT>> =>
               cResult = [res |-> "ok", out |-> <<0, 0, 0, 0>>]
        /\ cArgs.data = <<LOWER_Z, 57, 106, 113, 111, TILDE, GT>> =>
               /\ cResult.res = "ok"
               /\ SubSeq(cResult.out, 1, 4) = <<0, 0, 0, 0>>

\* C18 as stated: `z~>` decodes to four zero bytes and `z9jqo~>` is rejected
\* with an error.
C18_ZHandling ==
    (cPc = "returned" /\ cArgs.fn = "checkASCII85Decode") =>
        /\ cArgs.data = <<LOWER_Z, TILDE, GT>> =>
               cResult = [res |-> "ok", out |-> <<0, 0, 0, 0>>]
        /\ cArgs.data = <<LOWER_Z, 57, 106, 113, 111, TILDE, GT>> =>
               cResult.res = "err"

C18_Witness ==
    /\ cPc = "returned"
    /\ cArgs.data = <<LOWER_Z, 57, 106, 113, 111, TILDE, GT>>
    /\ cResult.res = "ok"
    /\ Len(cResult.out) >= 4

(***************************************************************************)
(* Header (SpecHeader)                                                     *)
(***************************************************************************)
\* C19: the header is accepted only if the file begins with %PDF-1.N, N a
\* digit in 0..7, followed by an end of line; Version is always one of
\* "1.0" .. "1.7" once the header is accepted.
C19_HeaderValidation ==
    (cPc = "returned" /\ cArgs.fn = "parseHeader" /\ cResult.res = "ok") =>
        /\ SubSeq(cArgs.data, 1, 7) = PDF_MAGIC
        /\ cArgs.data[8] \in DIGIT0..(DIGIT0 + 7)
        /\ cArgs.data[9] \in {CR, LF}
        /\ cResult.Version \in { <<DIGIT0 + 1, 46, DIGIT0 + n>> : n \in 0..7 }

(***************************************************************************)
(* XREF subsections (SpecParse)                                            *)
(***************************************************************************)
\* C20: when one xref keyword is followed by two subsections, parseXrefTable
\* puts the in-use entries of every subsection into ObjById and parsing goes
\* on with the trailer: Parse succeeds and ObjById holds every object the
\* two subsections list in use.
C20_XrefSubsections ==
    LET x == CHOOSE k \in 1..Len(file.slots) : file.slots[k].kind = "xref"
        subs == file.slots[x].subs
        listed == { id \in 0..MaxId :
                      \E s \in 1..Len(subs) : \E k \in 1..Len(subs[s].ents) :
                         subs[s].first + k - 1 = id /\ subs[s].ents[k].use = "n" }
    IN (ParseEnded /\ phase = 1 /\ file.defect = "twosubs" /\ file.nSec = 1) =>
          /\ ParseOk
          /\ \A id \in listed : pf.ObjById[id] # 0

(***************************************************************************)
(* XREF offsets beyond the XREF (SpecParse)                                *)
(***************************************************************************)
\* C21: when an in-use entry of a subsection has an offset beyond the XREF
\* itself, strict mode fails with an error and fix mode leaves every in-use
\* entry of the subsection (before, at and after the bad one) with start -1.
C21_XrefOffsetBound ==
    (phase = 1 /\ file.nSec = 1 /\ file.defect \in {"xbeyond", "xlast"}) =>
        /\ ~fix => (pc # "trailer" /\ (ParseEnded => ret = ErrReturn))
        /\ (fix /\ pc = "trailer") =>
               /\ heap # <<>>
               /\ \A c \in 1..Len(heap) : heap[c].start = -1

(***************************************************************************)
(* XREF chain (SpecParse)                                                  *)
(***************************************************************************)
\* C22: the XREF offsets visited during Parse are strictly decreasing, and a
\* trailer whose Prev is the offset of its own XREF or of a newer one leads to
\* a returned error, never to a crash.
C22_XrefChain ==
    (phase = 1 /\ file.defect = "prevloop") =>
        /\ pc = "xref" => loc.xrefStart < loc.blockEnd
        /\ pc # "panic"
        /\ ParseEnded => ret = ErrReturn


\* C23: a dictionary followed by `stream` whose Length is absent or is not a
\* number yields a returned error: the parse neither aborts nor produces a
\* stream.
C23_StreamNeedsLength ==
    LET es == dInput.entries
        lens == { j \in 1..Len(es) : es[j].key = KEY_LENGTH }
    IN (dInput.role = "stream" /\ (lens = {} \/ es[Max(lens)].val.k # "num")) =>
           /\ dPc \notin {"panic", "stream"}
           /\ dPc \notin {"dict", "entry"} => dPc = "error"


\* C24: a name token ends at the next delimiter, without consuming it: the
\* dictionary written without white space before the `/` of its names, as in
\* <</Type/Catalog>>, is read as the keys and the values it was written with.
C24_NameEndsAtDelimiter ==
    LET es == dInput.entries
    IN (dInput.role = "object" /\ dInput.tight /\ dPc \notin {"dict", "entry"}
        /\ \A j \in 1..Len(es) : es[j].val.k = "name") =>
           /\ dPc \in {"parsed", "written"}
           /\ dKeys = [j \in 1..Len(es) |-> es[j].key]
           /\ \A j \in 1..Len(es) :
                 (\A l \in (j + 1)..Len(es) : es[l].key # es[j].key) =>
                     dData[es[j].key] = es[j].val


\* C25: getName accepts a name token if and only if every `#` in it is
\* followed by two hexadecimal digits, and the accepted name is the text of
\* the token after `/`, escapes undecoded.
C25_NameEscapes ==
    LET t == Tail(cArgs.data)
        isHex(c) == c \in (48..57) \cup (65..70) \cup (97..102)
        valid == \A i \in 1..Len(t) :
                    t[i] = HASH => (i + 2 <= Len(t) /\ isHex(t[i + 1]) /\ isHex(t[i + 2]))
    IN (cPc = "returned" /\ cArgs.fn = "getName") =>
          /\ cResult.res = "ok" <=> valid
          /\ cResult.res = "ok" => cResult.name = t

\* C26: getHexString returns an error when a character before the closing `>`
\* is neither white space nor a hexadecimal digit, whatever its position in
\* the pair; otherwise the bytes made of the successive pairs of digits, an
\* odd last digit being the high nibble of a byte whose low nibble is 0.
C26_HexStringValidation ==
    LET d == cArgs.data
        closed == \E i \in 1..Len(d) : d[i] = GT
        end == Min({ i \in 1..Len(d) : d[i] = GT })
        body == SelectSeq(SubSeq(d, 1, end - 1), LAMBDA c : c \notin {CR, LF, 0, 9, 12, SP})
        isHex(c) == c \in (48..57) \cup (65..70) \cup (97..102)
        val(c) == IF c <= 57 THEN c - 48 ELSE IF c <= 70 THEN c - 55 ELSE c - 87
        digit(j) == IF j <= Len(body) THEN val(body[j]) ELSE 0
    IN (cPc = "returned" /\ cArgs.fn = "getHexString" /\ closed) =>
          IF \E j \in 1..Len(body) : ~isHex(body[j])
          THEN cResult.res = "err"
          ELSE /\ cResult.res = "ok"
               /\ cResult.out = [j \in 1..((Len(body) + 1) \div 2) |->
                                    16 * digit(2 * j - 1) + digit(2 * j)]


\* C27: saveCurrentToken, nextToken, restoreCurrentToken leave token and
\* tokFilePos as they were saved, and the next nextToken returns the token and
\* the file position the look-ahead returned, also after comments and after a
\* refill of the buffer; no token is as long as the buffer.
C27_LookAhead ==
    LET d == cArgs.data
        long == \E k \in 1..(Len(d) - BufSize + 1) :
                    \A j \in k..(k + BufSize - 1) : d[j] = DATA[1]
    IN (cArgs.fn = "lookAhead" /\ ~long) =>
          /\ cPc # "panic"
          /\ cPc = "restored" => /\ cResult.fi.token = cResult.was.token
                                 /\ cResult.fi.tokFilePos = cResult.was.pos
          /\ cPc = "returned" => /\ cResult.fi.token = cResult.look.token
                                 /\ cResult.fi.tokFilePos = cResult.look.pos


\* C28: when the body walker reads a header `id gen obj` whose id is not in
\* ObjById, or is there with another generation, the turn ends neither in an
\* error nor in a crash, gives no object a value, appends nothing to Objects,
\* and leaves the input after that header, ready for the next one.
C28_BodyWalkerSkip ==
    [][ LET q == NextTokPos(CurFile, fi.pos)
            slot == SlotAt(CurFile, q)
            p == pf.ObjById[slot.id]
        IN (/\ pc = "walk"
            /\ fi.pos >= fi.bStart
            /\ TokenAt(CurFile, fi, q) = "objhdr"
            /\ (p = 0 \/ heap[p].gen # slot.gen)) =>
               /\ pc' = "walk"
               /\ pf' = pf
               /\ heap' = heap
               /\ fi'.pos > q ]_vars


\* C29: after skipInBufferTo( p ), for bStart <= p <= stopAt, the file position
\* bStart + offset is p and stopAt is what it was, wherever p lies: inside the
\* buffer, beyond it, at its end or at stopAt.
C29_SeekPostcondition ==
    (cArgs.fn = "skipInBufferTo" /\ cPc = "returned") =>
        /\ cResult.res = "ok"
        /\ cResult.fi.bStart + cResult.fi.offset = cResult.p
        /\ cResult.fi.stopAt = cResult.stopAt


\* C30: serializeNumber completes and writes the number without exponent: its
\* digits with the decimal point where the exponent puts it, zeros added
\* before the digits for a negative exponent and after them for a positive
\* one; so also for a value of 1e6 or more with digits after the point.
C30_NumberSerialization ==
    LET ds == cArgs.data
        pt == cArgs.pt
        digs == [k \in 1..Len(ds) |-> DIGIT0 + ds[k]]
        zeros(n) == [k \in 1..n |-> DIGIT0]
        plain == IF pt <= 0 THEN <<DIGIT0, DOT>> \o zeros(-pt) \o digs
                 ELSE IF pt >= Len(ds) THEN digs \o zeros(pt - Len(ds))
                 ELSE SubSeq(digs, 1, pt) \o <<DOT>> \o SubSeq(digs, pt + 1, Len(ds))
    IN (cArgs.fn = "serializeNumber" /\ cPc = "returned") =>
          /\ cResult.res = "ok"
          /\ cResult.out = (IF cArgs.neg THEN <<MINUS>> ELSE <<>>) \o plain

====
